---- MODULE Spec2Model ----
(***************************************************************************)
(* Request dispatch and context lifecycle of the Flask application object  *)
(* (src/simple/1.0.2/__flask.py).  Each worker runs Flask.wsgi_app for one *)
(* request at a time; the workers of one application share the             *)
(* configuration, the error handler registry, _got_first_request and       *)
(* _before_request_lock, and each worker owns its pair of context stacks.  *)
(***************************************************************************)
EXTENDS Integers, Sequences, FiniteSets, TLC

\* ------------------------------------------------------------------ bounds
\* Requests a single-threaded server is handed over its lifetime.
MaxRequests == 1

\* Requests a threaded server is handed over its lifetime.
MaxThreadedRequests == 2

\* ----------------------------------------------------------------- workers
Workers == {"w1", "w2"}
NoWorker == "nobody"

\* The thread of a server that is not threaded.
MainWorker == "w1"

\* Python's None where a name, a code or a configuration value is absent.
None == "None"

\* --------------------------------------------------------- exception types
\* werkzeug.exceptions and the builtin hierarchy, as far as the dispatch
\* code tells the classes apart (isinstance tests and __mro__ walks).
HTTPClasses ==
    {"HTTPException", "BadRequest", "BadRequestKeyError", "NotFound",
     "MethodNotAllowed", "RequestRedirect", "InternalServerError"}

\* Classes deriving from Exception.
ExceptionClasses ==
    HTTPClasses \cup {"Exception", "AppError", "SubAppError", "TypeError",
                      "KeyError", "FormDataRoutingRedirect"}

\* Classes deriving from BaseException only: "except Exception" lets them pass.
BaseOnlyClasses == {"SystemExit"}

AllClasses == ExceptionClasses \cup BaseOnlyClasses \cup {"BaseException"}

\* type(e).__mro__, most specific class first.
Mro(cls) ==
    CASE cls = "BaseException" -> <<"BaseException">>
      [] cls = "SystemExit" -> <<"SystemExit", "BaseException">>
      [] cls = "Exception" -> <<"Exception", "BaseException">>
      [] cls = "AppError" -> <<"AppError", "Exception", "BaseException">>
      [] cls = "SubAppError" ->
           <<"SubAppError", "AppError", "Exception", "BaseException">>
      [] cls = "TypeError" -> <<"TypeError", "Exception", "BaseException">>
      [] cls = "KeyError" -> <<"KeyError", "Exception", "BaseException">>
      [] cls = "FormDataRoutingRedirect" ->
           <<"FormDataRoutingRedirect", "Exception", "BaseException">>
      [] cls = "HTTPException" ->
           <<"HTTPException", "Exception", "BaseException">>
      [] cls = "BadRequest" ->
           <<"BadRequest", "HTTPException", "Exception", "BaseException">>
      [] cls = "BadRequestKeyError" ->
           <<"BadRequestKeyError", "BadRequest", "HTTPException", "KeyError",
             "Exception", "BaseException">>
      [] cls = "NotFound" ->
           <<"NotFound", "HTTPException", "Exception", "BaseException">>
      [] cls = "MethodNotAllowed" ->
           <<"MethodNotAllowed", "HTTPException", "Exception", "BaseException">>
      [] cls = "RequestRedirect" ->
           <<"RequestRedirect", "HTTPException", "Exception", "BaseException">>
      [] cls = "InternalServerError" ->
           <<"InternalServerError", "HTTPException", "Exception",
             "BaseException">>

SeqRange(s) == {s[i] : i \in 1..Len(s)}

\* isinstance(e, base) for an exception of class cls.
IsInstance(cls, base) == base \in SeqRange(Mro(cls))

\* The class attribute `code` of an HTTP exception class; None for the proxy
\* base class and for every class that is no HTTP exception.
ClassCode(cls) ==
    CASE cls \in {"BadRequest", "BadRequestKeyError"} -> "400"
      [] cls = "NotFound" -> "404"
      [] cls = "MethodNotAllowed" -> "405"
      [] cls = "RequestRedirect" -> "308"
      [] cls = "InternalServerError" -> "500"
      [] OTHER -> None

Codes == {None, "400", "404", "405", "308", "500"}

\* Flask._get_exc_class_and_code applied to a class: (class, code), the code
\* being looked at only for subclasses of HTTPException.
GetExcClassAndCode(cls) ==
    IF IsInstance(cls, "HTTPException")
    THEN <<cls, ClassCode(cls)>>
    ELSE <<cls, None>>

\* ------------------------------------------------- error handler registry
\* error_handler_spec[name][code][class] is a handler or absent.  A missing
\* key at any level and an empty dict both read as NoHandler, which is how
\* setdefault(name, {}).get(c), "if not handler_map" and handler_map.get(cls)
\* treat them.
NoHandler == "no_handler"
Scopes == {None, "bp", "other"}

EmptyRegistry ==
    [name \in Scopes |-> [c \in Codes |-> [cls \in AllClasses |-> NoHandler]]]

\* The registry with handler h stored at [name][c][cls].
WithHandler(reg, name, c, cls, h) ==
    [reg EXCEPT ![name][c][cls] = h]

\* A faulty walk: the least specific class with a handler wins.
MroWalkLeastSpecific(handler_map, mro, i) ==
    LET found == {j \in i..Len(mro) : handler_map[mro[j]] # NoHandler}
    IN IF found = {} THEN NoHandler
       ELSE handler_map[mro[CHOOSE j \in found : \A k \in found : k <= j]]

\* The walk "for cls in exc_class.__mro__" over one handler map, from
\* position i: the first handler that is not None.
RECURSIVE MroWalk(_, _, _)
MroWalk(handler_map, mro, i) ==
    IF i > Len(mro) THEN NoHandler
    ELSE IF handler_map[mro[i]] # NoHandler THEN handler_map[mro[i]]
    ELSE MroWalk(handler_map, mro, i + 1)

\* A faulty order: the application's handlers before the blueprint's.
LookupOrderGlobalFirst(blueprint, code) ==
    << <<None, code>>, <<blueprint, code>>,
       <<None, None>>, <<blueprint, None>> >>

\* The four (name, code) pairs of Flask._find_error_handler, in the order
\* of its for statement.
LookupOrder(blueprint, code) ==
    << <<blueprint, code>>, <<None, code>>,
       <<blueprint, None>>, <<None, None>> >>

\* The loop over the pairs, from pair k.
RECURSIVE BucketWalk(_, _, _, _)
BucketWalk(reg, order, mro, k) ==
    IF k > Len(order) THEN NoHandler
    ELSE LET handler_map == reg[order[k][1]][order[k][2]]
             handler == MroWalk(handler_map, mro, 1)
         IN IF handler # NoHandler THEN handler
            ELSE BucketWalk(reg, order, mro, k + 1)

\* Flask._find_error_handler(e) for an exception of class cls raised while
\* request.blueprint is `blueprint`.
FindErrorHandler(reg, blueprint, cls) ==
    LET cc == GetExcClassAndCode(cls)
    IN BucketWalk(reg, LookupOrder(blueprint, cc[2]), Mro(cc[1]), 1)

\* ----------------------------------------------------------- configuration
\* The keys of Flask.config the dispatch code reads.  DEBUG is a boolean once
\* make_config has run (get_debug_flag); the keys that default to None keep
\* three values.
Tri == {None, "True", "False"}

Configs ==
    [DEBUG : BOOLEAN, TESTING : BOOLEAN, PROPAGATE_EXCEPTIONS : Tri,
     PRESERVE_CONTEXT_ON_EXCEPTION : Tri, TRAP_HTTP_EXCEPTIONS : BOOLEAN,
     TRAP_BAD_REQUEST_ERRORS : Tri]

\* Flask.default_config, with DEBUG as get_debug_flag() gives it in the
\* production environment.
DefaultConfig ==
    [DEBUG |-> FALSE, TESTING |-> FALSE, PROPAGATE_EXCEPTIONS |-> None,
     PRESERVE_CONTEXT_ON_EXCEPTION |-> None, TRAP_HTTP_EXCEPTIONS |-> FALSE,
     TRAP_BAD_REQUEST_ERRORS |-> None]

\* A faulty policy: the value computed when the application was constructed
\* is kept, whatever the configuration says later.
PropagateExceptionsCached(cfg) ==
    IF DefaultConfig.PROPAGATE_EXCEPTIONS # None
    THEN DefaultConfig.PROPAGATE_EXCEPTIONS = "True"
    ELSE DefaultConfig.TESTING \/ DefaultConfig.DEBUG

\* Flask.propagate_exceptions
PropagateExceptions(cfg) ==
    IF cfg.PROPAGATE_EXCEPTIONS # None
    THEN cfg.PROPAGATE_EXCEPTIONS = "True"
    ELSE cfg.TESTING \/ cfg.DEBUG

\* Flask.preserve_context_on_exception
PreserveContextOnException(cfg) ==
    IF cfg.PRESERVE_CONTEXT_ON_EXCEPTION # None
    THEN cfg.PRESERVE_CONTEXT_ON_EXCEPTION = "True"
    ELSE cfg.DEBUG

\* A faulty trap_http_exception: with TRAP_BAD_REQUEST_ERRORS unset, debug
\* mode traps every bad request error.
TrapHttpExceptionDebugTrapsBadRequest(cfg, cls) ==
    IF cfg.TRAP_HTTP_EXCEPTIONS THEN TRUE
    ELSE IF cfg.TRAP_BAD_REQUEST_ERRORS = None /\ cfg.DEBUG
            /\ IsInstance(cls, "BadRequest") THEN TRUE
    ELSE IF cfg.TRAP_BAD_REQUEST_ERRORS = "True"
         THEN IsInstance(cls, "BadRequest")
    ELSE FALSE

\* Flask.trap_http_exception(e) for an HTTP exception of class cls.
TrapHttpException(cfg, cls) ==
    IF cfg.TRAP_HTTP_EXCEPTIONS THEN TRUE
    ELSE IF cfg.TRAP_BAD_REQUEST_ERRORS = None /\ cfg.DEBUG
            /\ IsInstance(cls, "BadRequestKeyError") THEN TRUE
    ELSE IF cfg.TRAP_BAD_REQUEST_ERRORS = "True"
         THEN IsInstance(cls, "BadRequest")
    ELSE FALSE

\* A faulty should_ignore_error: every error is ignored.
ShouldIgnoreErrorAlways(ignored_errors, error) == TRUE

\* Flask.should_ignore_error(error): False, for Flask itself.  A subclass
\* may override it; ignored_errors has the classes of the errors its
\* method returns True for, none for Flask itself.
ShouldIgnoreError(ignored_errors, error) == error.cls \in ignored_errors

\* ------------------------------------------------------------------ values
\* What a view, a callback or an error handler returns, and what
\* make_response turns it into.  One record shape for every value:
\*   none      None
\*   str       text/bytes; body is the text
\*   int       a number (a numeric status); status is its digits
\*   dict      something header-like (Headers, dict, tuple, list) used as
\*             headers; headers are the pairs
\*   tuple     items are the elements
\*   response  an instance of response_class: body, status (the code),
\*             sline (the text after the code) and headers
\*   exc       an exception instance used as a WSGI callable: body is its
\*             class, status its code
\*   object    any other object (force_type raises TypeError)
Val(kind, body, status, sline, headers, items) ==
    [kind |-> kind, body |-> body, status |-> status, sline |-> sline,
     headers |-> headers, items |-> items]

NoneVal == Val("none", "", "", "", <<>>, <<>>)
StrVal(text) == Val("str", text, "", "", <<>>, <<>>)
\* A status line given as text, "<code> <reason>".
StatusText(code, reason) == Val("str", "", code, reason, <<>>, <<>>)
IntVal(digits) == Val("int", "", digits, "", <<>>, <<>>)
DictVal(pairs) == Val("dict", "", "", "", pairs, <<>>)
TupleVal(items) == Val("tuple", "", "", "", <<>>, items)
Response(body, code, reason, pairs) ==
    Val("response", body, code, reason, pairs, <<>>)
ExcVal(cls) == Val("exc", cls, ClassCode(cls), "", <<>>, <<>>)
Object == Val("object", "", "", "", <<>>, <<>>)

\* The reason phrase werkzeug gives a bare status code.
DefaultReason == "DEFAULT"

\* An exception in flight: its class and where it was raised, which tells
\* two exception objects of one class apart.
Exc(cls, src) == [cls |-> cls, src |-> src]
NoExc == [cls |-> None, src |-> None]

\* The result of a call: a returned value or a raised exception.
Returned(v) == [ok |-> TRUE, rv |-> v, exc |-> NoExc]
Raised(e) == [ok |-> FALSE, rv |-> NoneVal, exc |-> e]

\* What make_response has after "unpack tuple returns": the body, the status
\* and the headers, None where the return value gives none.
Unpacked(ok, rv, status, headers) ==
    [ok |-> ok, rv |-> rv, status |-> status, headers |-> headers]

\* A faulty unpacking: the second element of a 2-tuple is always the status.
UnpackSecondIsStatus(rv0) ==
    IF rv0.kind # "tuple" THEN Unpacked(TRUE, rv0, NoneVal, NoneVal)
    ELSE IF Len(rv0.items) = 3
    THEN Unpacked(TRUE, rv0.items[1], rv0.items[2], rv0.items[3])
    ELSE IF Len(rv0.items) = 2
    THEN Unpacked(TRUE, rv0.items[1], rv0.items[2], NoneVal)
    ELSE Unpacked(FALSE, rv0, NoneVal, NoneVal)

\* make_response, "unpack tuple returns": ok is false for a tuple that is
\* neither a 2-tuple nor a 3-tuple.
Unpack(rv0) ==
    IF rv0.kind # "tuple" THEN Unpacked(TRUE, rv0, NoneVal, NoneVal)
    ELSE IF Len(rv0.items) = 3
    THEN Unpacked(TRUE, rv0.items[1], rv0.items[2], rv0.items[3])
    ELSE IF Len(rv0.items) = 2
    THEN IF rv0.items[2].kind = "dict"
         THEN Unpacked(TRUE, rv0.items[1], NoneVal, rv0.items[2])
         ELSE Unpacked(TRUE, rv0.items[1], rv0.items[2], NoneVal)
    ELSE Unpacked(FALSE, rv0, NoneVal, NoneVal)

\* A faulty status: of a textual status only the code is taken.
WithStatusCodeOnly(r, status) ==
    IF status.kind = "none" THEN r
    ELSE [r EXCEPT !.status = status.status, !.sline = DefaultReason]

\* make_response, "prefer the status if it was provided": rv.status = status
\* for text, rv.status_code = status otherwise, after which the reason is
\* that of the code.
WithStatus(r, status) ==
    IF status.kind = "none" THEN r
    ELSE IF status.kind = "str"
         THEN [r EXCEPT !.status = status.status, !.sline = status.sline]
    ELSE [r EXCEPT !.status = status.status, !.sline = DefaultReason]

\* A faulty extension: the provided headers take the place of the existing.
WithHeadersReplacing(r, headers) ==
    IF headers.kind = "none" \/ headers.headers = <<>> THEN r
    ELSE [r EXCEPT !.headers = headers.headers]

\* make_response, "extend existing headers with provided headers"
WithHeaders(r, headers) ==
    IF headers.kind = "none" \/ headers.headers = <<>> THEN r
    ELSE [r EXCEPT !.headers = @ \o headers.headers]

\* A faulty coercion: None is an empty body.
CoerceNoneIsEmpty(rv) ==
    IF rv.kind = "response" THEN Returned(rv)
    ELSE IF rv.kind = "str"
         THEN Returned(Response(rv.body, "200", DefaultReason, <<>>))
    ELSE IF rv.kind = "none"
         THEN Returned(Response("", "200", DefaultReason, <<>>))
    ELSE IF rv.kind = "exc"
         THEN Returned(Response(rv.body, rv.status, DefaultReason, <<>>))
    ELSE Raised(Exc("TypeError", "make_response"))

\* make_response, "the body must not be None" and "make sure the body is an
\* instance of the response class": the response made of the body alone.
Coerce(rv) ==
    IF rv.kind = "none" THEN Raised(Exc("TypeError", "make_response"))
    ELSE IF rv.kind = "response" THEN Returned(rv)
    ELSE IF rv.kind = "str"
         \* response_class(rv, status=status, headers=headers)
         THEN Returned(Response(rv.body, "200", DefaultReason, <<>>))
    ELSE IF rv.kind = "exc"
         \* force_type runs the WSGI callable
         THEN Returned(Response(rv.body, rv.status, DefaultReason, <<>>))
    ELSE Raised(Exc("TypeError", "make_response"))

\* Flask.make_response(rv).  For a string the response class is handed the
\* status and the headers when it is made, to the effect they have on a
\* response afterwards.
MakeResponse(rv0) ==
    LET u == Unpack(rv0)
        made == Coerce(u.rv)
    IN IF ~u.ok THEN Raised(Exc("TypeError", "make_response"))
       ELSE IF ~made.ok THEN made
       ELSE Returned(WithHeaders(WithStatus(made.rv, u.status), u.headers))

\* ------------------------------------------------- the application's setup
\* An application is the callbacks registered on it and what its views and
\* handlers may do.  The functions named here stand for any functions; what
\* a call of one does is chosen when it is called.  The callback dicts are
\* keyed by blueprint name, None for the application itself; "bp" is the
\* blueprint that registers callbacks of its own.
\*   before_returns                  what a before-request function returns
\*                                   when it does not return None
\*   after_marks                     whether an after-request function gives
\*                                   back a response of its own making, the
\*                                   one it got with a header that names the
\*                                   function, or the one it got
\*   url_map                         Flask.url_map: the rules added, in order
\*   view_functions                  Flask.view_functions: the view of each
\*                                   endpoint
\*   view_returns, view_raises       what a view returns or raises
\*   handler_returns                 what an error handler returns
\*   ignored_errors                  the classes of the errors
\*                                   should_ignore_error is true for
\*   traffic                         the requests the server is handed
Blueprints == {None, "bp"}

Reversed(s) == [i \in 1..Len(s) |-> s[Len(s) + 1 - i]]

EarlyValue == StrVal("early")
EmptyValue == StrVal("")

\* The requests a worker may be handed: the method, the blueprint of the
\* matched rule, the routing exception captured when the context was made
\* (None for a match), the rule's provide_automatic_options, and whether the
\* environ asks for the context to be kept ("flask._preserve_context").  The
\* rule matched is that of the endpoint "index", which takes no arguments
\* from the path, unless Matched says otherwise; allowed_methods is what the
\* URL adapter answers for the path.
Request(method, blueprint, routing, auto_options, preserve) ==
    [method |-> method, blueprint |-> blueprint, routing |-> routing,
     auto_options |-> auto_options, preserve |-> preserve,
     endpoint |-> IF routing = None /\ method # None THEN "index" ELSE None,
     view_args |-> <<>>,
     allowed_methods |-> "GET, HEAD, OPTIONS"]

\* The request req with url_rule.endpoint, view_args and the methods allowed
\* for its path as given.
Matched(req, endpoint, view_args, allowed_methods) ==
    [req EXCEPT !.endpoint = endpoint, !.view_args = view_args,
                !.allowed_methods = allowed_methods]

NoRequest == Request(None, None, None, FALSE, FALSE)

\* A rule of the URL map: its path, its endpoint, its methods and its
\* provide_automatic_options.
UrlRule(rule, endpoint, methods, provide_automatic_options) ==
    [rule |-> rule, endpoint |-> endpoint, methods |-> methods,
     provide_automatic_options |-> provide_automatic_options]

\* An application with callbacks of every kind, for the application and for
\* the blueprint, whose views and handlers may return or raise.
RichApp ==
    [before_first_request_funcs |-> <<"f1", "f2">>,
     url_value_preprocessors |-> [n \in Blueprints |->
        IF n = None THEN <<"u1">> ELSE <<>>],
     before_request_funcs |-> [n \in Blueprints |->
        IF n = None THEN <<"b1">> ELSE <<"bb1">>],
     after_request_funcs |-> [n \in Blueprints |->
        IF n = None THEN <<"a1">> ELSE <<"ab1">>],
     teardown_request_funcs |-> [n \in Blueprints |->
        IF n = None THEN <<"t1">> ELSE <<"tb1">>],
     teardown_appcontext_funcs |-> <<"ta1">>,
     before_returns |-> {EarlyValue},
     after_marks |-> FALSE,
     url_map |-> <<UrlRule("/", "index", {"GET", "OPTIONS"}, TRUE)>>,
     view_functions |-> [e \in {"index"} |-> "index_view"],
     view_returns |-> {StrVal("ok"), NoneVal},
     view_raises |-> {"AppError", "NotFound", "BadRequestKeyError", "SystemExit"},
     handler_returns |-> {StrVal("handled"), NoneVal},
     ignored_errors |-> {},
     traffic |->
        {Request("GET", None, None, FALSE, FALSE),
         Request("GET", "bp", None, FALSE, TRUE),
         Request("OPTIONS", None, None, TRUE, FALSE),
         Request("GET", None, "NotFound", FALSE, FALSE),
         Request("GET", "bp", "RequestRedirect", FALSE, FALSE),
         Request("POST", None, "RequestRedirect", FALSE, FALSE),
         Request("POST", "bp", "MethodNotAllowed", FALSE, FALSE)}]

\* An application with before-first-request functions and one view only.
PlainApp ==
    [before_first_request_funcs |-> <<"f1", "f2">>,
     url_value_preprocessors |-> [n \in Blueprints |-> <<>>],
     before_request_funcs |-> [n \in Blueprints |-> <<>>],
     after_request_funcs |-> [n \in Blueprints |-> <<>>],
     teardown_request_funcs |-> [n \in Blueprints |-> <<>>],
     teardown_appcontext_funcs |-> <<>>,
     before_returns |-> {EarlyValue},
     after_marks |-> FALSE,
     url_map |-> <<UrlRule("/", "index", {"GET", "OPTIONS"}, TRUE)>>,
     view_functions |-> [e \in {"index"} |-> "index_view"],
     view_returns |-> {StrVal("ok")},
     view_raises |-> {"AppError"},
     handler_returns |-> {StrVal("handled")},
     ignored_errors |-> {},
     traffic |-> {Request("GET", None, None, FALSE, FALSE)}]

\* An application with one before-first-request function and one view.
SmallApp ==
    [PlainApp EXCEPT !.before_first_request_funcs = <<"f1">>]

\* Registries the dispatch is run against.
FullRegistry ==
    WithHandler(WithHandler(WithHandler(WithHandler(WithHandler(EmptyRegistry,
        None, "404", "NotFound", "h404"),
        None, "400", "BadRequest", "h400"),
        None, None, "AppError", "hApp"),
        "bp", None, "AppError", "hBpApp"),
        None, "500", "InternalServerError", "h500")

Registries == {EmptyRegistry, FullRegistry}

\* ------------------------------------------------------------------ events
\* The trace of one request: what ran, in order.  e names the step, a its
\* callback, handler, stage or flag, x the exception and v the value it got
\* or gave.
Ev(e, a, x, v) == [e |-> e, a |-> a, x |-> x, v |-> v]
Stage(name) == Ev("stage", name, NoExc, NoneVal)
Call(f) == Ev("call", f, NoExc, NoneVal)
CallExc(f, x) == Ev("call", f, x, NoneVal)
RaisedBy(f, x) == Ev("raised", f, x, NoneVal)

\* The outcome of a step: the value returned or the exception raised, and
\* the events of the step.
Out(ok, v, x, evs) == [ok |-> ok, rv |-> v, exc |-> x, evs |-> evs]

\* Calls of the functions of `funcs` in order, each returning or raising an
\* Exception; a raise ends the loop.  x is the argument the functions get.
RECURSIVE RunAll(_, _)
RunAll(funcs, x) ==
    IF funcs = <<>> THEN {Out(TRUE, NoneVal, NoExc, <<>>)}
    ELSE LET f == Head(funcs)
         IN {Out(FALSE, NoneVal, Exc("AppError", f),
                 <<CallExc(f, x), RaisedBy(f, Exc("AppError", f))>>)}
            \cup {[o EXCEPT !.evs = <<CallExc(f, x)>> \o @] :
                    o \in RunAll(Tail(funcs), x)}

\* A faulty before_request loop: the functions after the one whose result is
\* not None are called as well.
RECURSIVE RunBeforeToTheEnd(_, _)
RunBeforeToTheEnd(a, funcs) ==
    IF funcs = <<>> THEN {Out(TRUE, NoneVal, NoExc, <<>>)}
    ELSE LET f == Head(funcs)
         IN {Out(FALSE, NoneVal, Exc("AppError", f),
                 <<Call(f), RaisedBy(f, Exc("AppError", f))>>)}
            \cup {Out(o.ok, IF o.ok THEN v ELSE NoneVal, o.exc,
                      <<Ev("call", f, NoExc, v)>> \o o.evs) :
                    v \in a.before_returns, o \in RunBeforeToTheEnd(a, Tail(funcs))}
            \cup {[o EXCEPT !.evs = <<Call(f)>> \o @] :
                    o \in RunBeforeToTheEnd(a, Tail(funcs))}

\* A faulty before_request loop: "if rv:" for "if rv is not None:", so that
\* an empty result does not end it.
RECURSIVE RunBeforeUnlessEmpty(_, _)
RunBeforeUnlessEmpty(a, funcs) ==
    IF funcs = <<>> THEN {Out(TRUE, NoneVal, NoExc, <<>>)}
    ELSE LET f == Head(funcs)
         IN {Out(FALSE, NoneVal, Exc("AppError", f),
                 <<Call(f), RaisedBy(f, Exc("AppError", f))>>)}
            \cup {Out(TRUE, v, NoExc, <<Ev("call", f, NoExc, v)>>) :
                    v \in a.before_returns \ {EmptyValue}}
            \cup {[o EXCEPT !.evs = <<Ev("call", f, NoExc, v)>> \o @] :
                    v \in {NoneVal} \cup (a.before_returns \cap {EmptyValue}),
                    o \in RunBeforeUnlessEmpty(a, Tail(funcs))}

\* The before_request loop of preprocess_request: the first function whose
\* result is not None ends it with that result.
RECURSIVE RunBefore(_, _)
RunBefore(a, funcs) ==
    IF funcs = <<>> THEN {Out(TRUE, NoneVal, NoExc, <<>>)}
    ELSE LET f == Head(funcs)
         IN {Out(FALSE, NoneVal, Exc("AppError", f),
                 <<Call(f), RaisedBy(f, Exc("AppError", f))>>)}
            \cup {Out(TRUE, v, NoExc, <<Ev("call", f, NoExc, v)>>) :
                    v \in a.before_returns}
            \cup {[o EXCEPT !.evs = <<Call(f)>> \o @] :
                    o \in RunBefore(a, Tail(funcs))}

\* A faulty chain: the functions of the blueprint come first.
ChainedBlueprintFirst(funcs, bp) ==
    IF bp # None THEN funcs[bp] \o funcs[None] ELSE funcs[None]

\* chain(funcs.get(None, ()), funcs[bp]) as preprocess_request builds it; a
\* name that is no key of the dict has the empty list here.
Chained(funcs, bp) ==
    IF bp # None THEN funcs[None] \o funcs[bp] ELSE funcs[None]

\* Flask.preprocess_request for a request of blueprint bp.
PreprocessRequest(a, bp) ==
    UNION {IF u.ok
           THEN {[o EXCEPT !.evs = u.evs \o @] :
                   o \in RunBefore(a, Chained(a.before_request_funcs, bp))}
           ELSE {u}
           : u \in RunAll(Chained(a.url_value_preprocessors, bp), NoExc)}

\* A faulty raise_routing_exception: the captured failure is raised whatever
\* the mode and the method.
RaiseRoutingExceptionAsCaptured(cfg, req) == Exc(req.routing, "routing")

\* Flask.raise_routing_exception(request): the exception it raises.
RaiseRoutingException(cfg, req) ==
    IF ~cfg.DEBUG \/ ~IsInstance(req.routing, "RequestRedirect")
       \/ req.method \in {"GET", "HEAD", "OPTIONS"}
    THEN Exc(req.routing, "routing")
    ELSE Exc("FormDataRoutingRedirect", "debughelpers")

\* Flask.make_default_options_response: an empty response whose Allow header
\* has the methods the URL adapter allows for the path.
MakeDefaultOptionsResponse(req) ==
    Response("", "200", DefaultReason, << <<"Allow", req.allowed_methods>> >>)

\* A faulty dispatch_request: the view is called for an OPTIONS request as
\* for any other, whatever the rule's provide_automatic_options.
DispatchRequestAlwaysView(a, cfg, req) ==
    IF req.routing # None
    THEN {Out(FALSE, NoneVal, RaiseRoutingException(cfg, req),
              <<RaisedBy("routing", RaiseRoutingException(cfg, req))>>)}
    ELSE LET view == a.view_functions[req.endpoint]
             args == Ev("view_args", view, NoExc, DictVal(req.view_args))
         IN {Out(TRUE, v, NoExc, <<args, Ev("view", view, NoExc, v)>>) :
                v \in a.view_returns}
            \cup {Out(FALSE, NoneVal, Exc(c, "view"),
                      <<args, Ev("view", view, Exc(c, "view"), NoneVal),
                        RaisedBy("view", Exc(c, "view"))>>) : c \in a.view_raises}

\* Flask.dispatch_request.  The call of the view is two events: the
\* arguments view_functions[rule.endpoint] is called with, and what the call
\* returns or raises.
DispatchRequest(a, cfg, req) ==
    IF req.routing # None
    THEN {Out(FALSE, NoneVal, RaiseRoutingException(cfg, req),
              <<RaisedBy("routing", RaiseRoutingException(cfg, req))>>)}
    ELSE IF req.auto_options /\ req.method = "OPTIONS"
    THEN {Out(TRUE, MakeDefaultOptionsResponse(req), NoExc,
              <<Ev("options", "", NoExc, MakeDefaultOptionsResponse(req))>>)}
    ELSE LET view == a.view_functions[req.endpoint]
             args == Ev("view_args", view, NoExc, DictVal(req.view_args))
         IN {Out(TRUE, v, NoExc, <<args, Ev("view", view, NoExc, v)>>) :
                v \in a.view_returns}
            \cup {Out(FALSE, NoneVal, Exc(c, "view"),
                      <<args, Ev("view", view, Exc(c, "view"), NoneVal),
                        RaisedBy("view", Exc(c, "view"))>>) : c \in a.view_raises}

\* A call handler(e) of a registered error handler: it returns a value or
\* raises an exception of its own.
HandlerCall(a, h, e) ==
    {Out(TRUE, v, NoExc, <<Ev("handler", h, e, v)>>) : v \in a.handler_returns}
    \cup {Out(FALSE, NoneVal, Exc("AppError", h),
               <<Ev("handler", h, e, NoneVal), RaisedBy(h, Exc("AppError", h))>>)}

\* A faulty handle_http_exception: the registry is asked before the code is
\* looked at.
HandleHttpExceptionLooksUpFirst(a, reg, bp, e) ==
    LET handler == FindErrorHandler(reg, bp, e.cls)
    IN IF handler = NoHandler
       THEN {Out(TRUE, ExcVal(e.cls), NoExc, <<>>)}
       ELSE HandlerCall(a, handler, e)

\* Flask.handle_http_exception(e)
HandleHttpException(a, reg, bp, e) ==
    IF ClassCode(e.cls) = None
    THEN {Out(TRUE, ExcVal(e.cls), NoExc, <<>>)}
    ELSE LET handler == FindErrorHandler(reg, bp, e.cls)
         IN IF handler = NoHandler
            THEN {Out(TRUE, ExcVal(e.cls), NoExc, <<>>)}
            ELSE HandlerCall(a, handler, e)

\* A faulty handle_user_exception: HTTP exceptions are looked up in the
\* registry like any other, and re-raised when nothing is found.
HandleUserExceptionLooksUpAll(a, cfg, reg, bp, e) ==
    LET entry == <<Ev("handle_user_exception", "", e, NoneVal)>>
        handler == FindErrorHandler(reg, bp, e.cls)
        outs == IF handler = NoHandler
                THEN {Out(FALSE, NoneVal, e, <<Ev("reraise", "", e, NoneVal)>>)}
                ELSE HandlerCall(a, handler, e)
    IN {[o EXCEPT !.evs = entry \o @] : o \in outs}

\* Flask.handle_user_exception(e): a returned value, or the exception that
\* leaves it (e itself re-raised, or what a handler raised).
HandleUserException(a, cfg, reg, bp, e) ==
    LET entry == <<Ev("handle_user_exception", "", e, NoneVal)>>
        outs ==
            IF IsInstance(e.cls, "HTTPException") /\ ~TrapHttpException(cfg, e.cls)
            THEN HandleHttpException(a, reg, bp, e)
            ELSE LET handler == FindErrorHandler(reg, bp, e.cls)
                 IN IF handler = NoHandler
                    THEN {Out(FALSE, NoneVal, e, <<Ev("reraise", "", e, NoneVal)>>)}
                    ELSE HandlerCall(a, handler, e)
    IN {[o EXCEPT !.evs = entry \o @] : o \in outs}

\* The functions process_response calls, in its order: those of the
\* request's blueprint reversed, then those of the application reversed.
AfterRequestChain(a, bp) ==
    (IF bp # None THEN Reversed(a.after_request_funcs[bp]) ELSE <<>>)
    \o Reversed(a.after_request_funcs[None])

\* What the after-request function f gives back for the response it got.
AfterRequestResult(a, f, resp) ==
    IF a.after_marks THEN [resp EXCEPT !.headers = @ \o <<<<"After", f>>>>] ELSE resp

\* A faulty loop: every function is handed the response process_response was
\* called with.
RECURSIVE RunAfterFirstResponse(_, _, _)
RunAfterFirstResponse(a, funcs, resp) ==
    IF funcs = <<>> THEN {Out(TRUE, resp, NoExc, <<>>)}
    ELSE LET f == Head(funcs)
         IN {Out(FALSE, NoneVal, Exc("AppError", f),
                 <<Ev("call", f, NoExc, resp), RaisedBy(f, Exc("AppError", f))>>)}
            \cup {[o EXCEPT !.evs = <<Ev("call", f, NoExc, resp)>> \o @,
                            !.rv = IF o.ok /\ Len(funcs) = 1
                                   THEN AfterRequestResult(a, f, resp) ELSE @] :
                    o \in RunAfterFirstResponse(a, Tail(funcs), resp)}

\* "for handler in funcs: response = handler(response)": each function is
\* called with the response and what it gives back is the response from
\* then on; a raise ends the loop.
RECURSIVE RunAfter(_, _, _)
RunAfter(a, funcs, resp) ==
    IF funcs = <<>> THEN {Out(TRUE, resp, NoExc, <<>>)}
    ELSE LET f == Head(funcs)
         IN {Out(FALSE, NoneVal, Exc("AppError", f),
                 <<Ev("call", f, NoExc, resp), RaisedBy(f, Exc("AppError", f))>>)}
            \cup {[o EXCEPT !.evs = <<Ev("call", f, NoExc, resp)>> \o @] :
                    o \in RunAfter(a, Tail(funcs), AfterRequestResult(a, f, resp))}

\* Flask.process_response(response): the handlers, then the session is
\* saved.
ProcessResponse(a, bp, resp) ==
    {IF o.ok
     THEN Out(TRUE, o.rv, NoExc,
              o.evs \o <<Ev("save_session", "", NoExc, NoneVal)>>)
     ELSE o
     : o \in RunAfter(a, AfterRequestChain(a, bp), resp)}

BoolName(b) == IF b THEN "True" ELSE "False"

\* A faulty finalize_request: the safe mode is not looked at and a failure
\* of response processing is always raised.
FinalizeRequestUnsafe(a, bp, rv0, from_error_handler) ==
    LET entry == <<Stage("Finalized"),
                   Ev("finalize_request", BoolName(from_error_handler), NoExc, rv0)>>
        made == MakeResponse(rv0)
    IN IF ~made.ok
       THEN {Out(FALSE, NoneVal, made.exc,
                 entry \o <<RaisedBy("make_response", made.exc)>>)}
       ELSE {IF p.ok
             THEN Out(TRUE, p.rv, NoExc,
                      entry \o p.evs \o <<Ev("request_finished", "", NoExc, p.rv)>>)
             ELSE Out(FALSE, NoneVal, p.exc, entry \o p.evs)
             : p \in ProcessResponse(a, bp, made.rv)}

\* Flask.finalize_request(rv, from_error_handler)
FinalizeRequest(a, bp, rv0, from_error_handler) ==
    LET entry == <<Stage("Finalized"),
                   Ev("finalize_request", BoolName(from_error_handler), NoExc, rv0)>>
        made == MakeResponse(rv0)
    IN IF ~made.ok
       THEN {Out(FALSE, NoneVal, made.exc,
                 entry \o <<RaisedBy("make_response", made.exc)>>)}
       ELSE {IF p.ok
             THEN Out(TRUE, p.rv, NoExc,
                      entry \o p.evs \o <<Ev("request_finished", "", NoExc, p.rv)>>)
             ELSE IF ~from_error_handler
             THEN Out(FALSE, NoneVal, p.exc, entry \o p.evs)
             ELSE Out(TRUE, made.rv, NoExc,
                      entry \o p.evs \o <<Ev("logger.exception", "", p.exc, NoneVal)>>)
             : p \in ProcessResponse(a, bp, made.rv)}

\* Flask.log_exception
LogException(e) == Ev("log_exception", "", e, NoneVal)

\* A faulty handle_exception: the propagation policy is not looked at.
HandleExceptionNeverPropagates(a, cfg, reg, bp, e) ==
    LET entry == <<Ev("got_request_exception", "", e, NoneVal)>>
        handler == FindErrorHandler(reg, bp, "InternalServerError")
    IN IF handler = NoHandler
       THEN {Out(TRUE, ExcVal("InternalServerError"), NoExc,
                 entry \o <<LogException(e)>>)}
       ELSE UNION {IF h.ok
                   THEN {[f EXCEPT !.evs = entry \o <<LogException(e)>> \o h.evs \o @] :
                           f \in FinalizeRequest(a, bp, h.rv, TRUE)}
                   ELSE {[h EXCEPT !.evs = entry \o <<LogException(e)>> \o @]}
                   : h \in HandlerCall(a, handler, e)}

\* A faulty handle_exception: the exception is logged before the propagation
\* policy is looked at.
HandleExceptionLogsFirst(a, cfg, reg, bp, e) ==
    LET entry == <<Ev("got_request_exception", "", e, NoneVal), LogException(e)>>
        handler == FindErrorHandler(reg, bp, "InternalServerError")
    IN IF PropagateExceptions(cfg)
       THEN {Out(FALSE, NoneVal, e, entry \o <<Ev("reraise", "", e, NoneVal)>>)}
       ELSE IF handler = NoHandler
       THEN {Out(TRUE, ExcVal("InternalServerError"), NoExc, entry)}
       ELSE UNION {IF h.ok
                   THEN {[f EXCEPT !.evs = entry \o h.evs \o @] :
                           f \in FinalizeRequest(a, bp, h.rv, TRUE)}
                   ELSE {[h EXCEPT !.evs = entry \o @]}
                   : h \in HandlerCall(a, handler, e)}

\* A faulty handle_exception: the handler is looked up for the exception
\* that was raised, not for InternalServerError.
HandleExceptionByType(a, cfg, reg, bp, e) ==
    LET entry == <<Ev("got_request_exception", "", e, NoneVal)>>
        handler == FindErrorHandler(reg, bp, e.cls)
    IN IF PropagateExceptions(cfg)
       THEN {Out(FALSE, NoneVal, e, entry \o <<Ev("reraise", "", e, NoneVal)>>)}
       ELSE IF handler = NoHandler
       THEN {Out(TRUE, ExcVal("InternalServerError"), NoExc,
                 entry \o <<LogException(e)>>)}
       ELSE UNION {IF h.ok
                   THEN {[f EXCEPT !.evs = entry \o <<LogException(e)>> \o h.evs \o @] :
                           f \in FinalizeRequest(a, bp, h.rv, TRUE)}
                   ELSE {[h EXCEPT !.evs = entry \o <<LogException(e)>> \o @]}
                   : h \in HandlerCall(a, handler, e)}

\* Flask.handle_exception(e): the response it returns or the exception
\* that leaves it.
HandleException(a, cfg, reg, bp, e) ==
    LET entry == <<Ev("got_request_exception", "", e, NoneVal)>>
        handler == FindErrorHandler(reg, bp, "InternalServerError")
    IN IF PropagateExceptions(cfg)
       THEN {Out(FALSE, NoneVal, e, entry \o <<Ev("reraise", "", e, NoneVal)>>)}
       ELSE IF handler = NoHandler
       THEN {Out(TRUE, ExcVal("InternalServerError"), NoExc,
                 entry \o <<LogException(e)>>)}
       ELSE UNION {IF h.ok
                   THEN {[f EXCEPT !.evs = entry \o <<LogException(e)>> \o h.evs \o @] :
                           f \in FinalizeRequest(a, bp, h.rv, TRUE)}
                   ELSE {[h EXCEPT !.evs = entry \o <<LogException(e)>> \o @]}
                   : h \in HandlerCall(a, handler, e)}

\* ----------------------------------------------------------------- teardown
\* The functions do_teardown_request calls, in its order: those of the
\* application reversed, then those of the request's blueprint reversed.
TeardownRequestChain(a, bp) ==
    Reversed(a.teardown_request_funcs[None])
    \o (IF bp # None THEN Reversed(a.teardown_request_funcs[bp]) ELSE <<>>)

\* Flask.do_teardown_request(exc)
DoTeardownRequest(a, bp, x) ==
    {IF o.ok
     THEN [o EXCEPT !.evs = <<Ev("do_teardown_request", "", x, NoneVal)>> \o @
                             \o <<Ev("request_tearing_down", "", x, NoneVal)>>]
     ELSE [o EXCEPT !.evs = <<Ev("do_teardown_request", "", x, NoneVal)>> \o @]
     : o \in RunAll(TeardownRequestChain(a, bp), x)}

\* Flask.do_teardown_appcontext(exc)
DoTeardownAppcontext(a, x) ==
    {IF o.ok
     THEN [o EXCEPT !.evs = <<Ev("do_teardown_appcontext", "", x, NoneVal)>> \o @
                             \o <<Ev("appcontext_tearing_down", "", x, NoneVal)>>]
     ELSE [o EXCEPT !.evs = <<Ev("do_teardown_appcontext", "", x, NoneVal)>> \o @]
     : o \in RunAll(Reversed(a.teardown_appcontext_funcs), x)}

\* ---------------------------------------------------------------- contexts
\* The two context stacks of a worker hold records: an application context
\* is [id, app, refcnt], a request context [rid, app, owns_app, app_ctx,
\* preserved], app_ctx being the id of the application context it pushed, 0
\* when it pushed none.  Ids tell the context objects apart.
ThisApp == "app"
OtherApp == "other"
Applications == {ThisApp, OtherApp}

\* LocalStack.top: the last element, or a context of no application for the
\* None of an empty stack.
Top(s) == IF s = <<>> THEN [app |-> None] ELSE s[Len(s)]

\* Whether the top of application stack s wraps application a.
AppContextCurrent(s, a) == s # <<>> /\ s[Len(s)].app = a

\* A faulty push: a context is pushed although one for the application is
\* current.
AppContextPushAlways(s, a, id) == Append(s, [id |-> id, app |-> a, refcnt |-> 1])

\* AppContext push for application a on stack s: the current context is
\* used again, counted once more, when it wraps a, and a new one is pushed
\* otherwise.
AppContextPush(s, a, id) ==
    IF AppContextCurrent(s, a)
    THEN [s EXCEPT ![Len(s)].refcnt = @ + 1]
    ELSE Append(s, [id |-> id, app |-> a, refcnt |-> 1])

\* A faulty pop: the context leaves the stack at its first pop.
AppContextPopAtOnce(s, i) ==
    [stack |-> SubSeq(s, 1, Len(s) - 1), torn |-> TRUE, rejected |-> i # Len(s)]

\* AppContext pop of the context at place i of stack s: its count goes down
\* and at zero it is torn down and the top of the stack removed; a context
\* that is not the top is a fatal error.
AppContextPop(s, i) ==
    LET left == s[i].refcnt - 1
        counted == [s EXCEPT ![i].refcnt = left]
    IN [stack |-> IF left = 0 THEN SubSeq(counted, 1, Len(counted) - 1) ELSE counted,
        torn |-> left = 0,
        rejected |-> i # Len(s)]

\* A faulty push: the request context goes on its stack and no application
\* context is pushed for it.
RequestContextPushedAlone(rs, as, a, rid) ==
    [request |-> Append(rs, [rid |-> rid, app |-> a, owns_app |-> FALSE,
                             app_ctx |-> 0, preserved |-> FALSE]),
     app |-> as]

\* RequestContext push for application a on request stack rs, the
\* application stack being as: both stacks afterwards.
RequestContextPushed(rs, as, a, rid) ==
    LET owns == ~AppContextCurrent(as, a)
        pushed == IF owns THEN AppContextPush(as, a, rid) ELSE as
    IN [request |-> Append(rs, [rid |-> rid, app |-> a, owns_app |-> owns,
                                app_ctx |-> IF owns THEN rid ELSE 0,
                                preserved |-> FALSE]),
        app |-> pushed]

\* _app_ctx_err_msg and _request_ctx_err_msg, their first lines.
AppCtxErrMsg == "Working outside of application context."
RequestCtxErrMsg == "Working outside of request context."

\* The result of reading a proxy: the attribute it gives, or the RuntimeError
\* it raises with its message.
Read(x, msg, value) == [x |-> x, msg |-> msg, value |-> value]

\* _lookup_req_object(name)
LookupReqObject(rs, name) ==
    IF Top(rs).app = None
    THEN Read(Exc("RuntimeError", "_lookup_req_object"), RequestCtxErrMsg, <<>>)
    ELSE Read(NoExc, "", <<name, Top(rs).app>>)

\* A faulty _find_app: the message of the request context is used.
FindAppWrongMessage(as) ==
    IF Top(as).app = None
    THEN Read(Exc("RuntimeError", "_find_app"), RequestCtxErrMsg, <<>>)
    ELSE Read(NoExc, "", <<"app", Top(as).app>>)

\* _find_app()
FindApp(as) ==
    IF Top(as).app = None
    THEN Read(Exc("RuntimeError", "_find_app"), AppCtxErrMsg, <<>>)
    ELSE Read(NoExc, "", <<"app", Top(as).app>>)

\* _lookup_app_object(name)
LookupAppObject(as, name) ==
    IF Top(as).app = None
    THEN Read(Exc("RuntimeError", "_lookup_app_object"), AppCtxErrMsg, <<>>)
    ELSE Read(NoExc, "", <<name, Top(as).app>>)

\* The proxies of the module: current_app, request, session and g.
Proxies == {"current_app", "request", "session", "g"}

ReadProxy(name, rs, as) ==
    CASE name = "current_app" -> FindApp(as)
      [] name = "request" -> LookupReqObject(rs, "request")
      [] name = "session" -> LookupReqObject(rs, "session")
      [] name = "g" -> LookupAppObject(as, "g")

\* ------------------------------------------------------------------- state
VARIABLES
    app,                 \* the application: its callbacks, views and traffic
    config,              \* Flask.config
    error_handler_spec,  \* Flask.error_handler_spec
    threaded,            \* whether the server runs requests concurrently
    got_first_request,   \* Flask._got_first_request
    before_request_lock, \* the holder of Flask._before_request_lock
    bfr_calls,           \* calls of each before_first_request function so far
    served,              \* requests started so far
    pc,                  \* each worker's place in wsgi_app
    request,             \* each worker's request
    bfr_i,               \* the index of the loop over before_first_request_funcs
    rv,                  \* rv of full_dispatch_request
    exc,                 \* the exception in flight, or NoExc
    error,               \* error of wsgi_app
    response,            \* response of wsgi_app
    request_ctx_stack,   \* _request_ctx_stack of each worker
    app_ctx_stack,       \* _app_ctx_stack of each worker
    events,              \* the trace of each worker's current request
    lookup,              \* one call of _find_error_handler and its result
    usage                \* what application code did itself: context operations, setup calls

vars ==
    <<app, config, error_handler_spec, threaded, got_first_request,
      before_request_lock, bfr_calls, served, pc, request, bfr_i, rv, exc,
      error, response, request_ctx_stack, app_ctx_stack, events, lookup,
      usage>>

setup == <<app, config, error_handler_spec, threaded, lookup, usage>>
first_request == <<got_first_request, before_request_lock, bfr_calls>>
stacks == <<request_ctx_stack, app_ctx_stack>>

NoLookup == [blueprint |-> None, cls |-> None, handler |-> NoHandler, done |-> FALSE]

IdleWorkers ==
    /\ got_first_request = FALSE
    /\ before_request_lock = NoWorker
    /\ bfr_calls = [i \in 1..Len(app.before_first_request_funcs) |-> 0]
    /\ served = 0
    /\ pc = [w \in Workers |-> "idle"]
    /\ request = [w \in Workers |-> NoRequest]
    /\ bfr_i = [w \in Workers |-> 0]
    /\ rv = [w \in Workers |-> NoneVal]
    /\ exc = [w \in Workers |-> NoExc]
    /\ error = [w \in Workers |-> NoExc]
    /\ response = [w \in Workers |-> NoneVal]
    /\ request_ctx_stack = [w \in Workers |-> <<>>]
    /\ app_ctx_stack = [w \in Workers |-> <<>>]
    /\ events = [w \in Workers |-> <<>>]
    /\ usage = <<>>

\* The configurations the pipeline is run under: debug mode on or off, each
\* setting of PROPAGATE_EXCEPTIONS and of both trap keys, the context kept on
\* errors as debug mode has it.
ServedConfigs ==
    {c \in Configs : /\ ~c.TESTING
                     /\ c.PRESERVE_CONTEXT_ON_EXCEPTION = None
                     /\ c.TRAP_BAD_REQUEST_ERRORS # "False"}

\* A single-threaded server running the application with every kind of
\* callback, under each of the configurations and either registry.
Init ==
    /\ app = RichApp
    /\ config \in ServedConfigs
    /\ error_handler_spec \in Registries
    /\ threaded = FALSE
    /\ lookup = NoLookup
    /\ IdleWorkers

\* A threaded server running the plain application, in production or in
\* debug mode.
InitThreaded ==
    /\ app = PlainApp
    /\ config \in {DefaultConfig, [DefaultConfig EXCEPT !.DEBUG = TRUE]}
    /\ error_handler_spec \in Registries
    /\ threaded = TRUE
    /\ lookup = NoLookup
    /\ IdleWorkers

Emit(w, evs) == events' = [events EXCEPT ![w] = @ \o evs]

\* ------------------------------------------------ wsgi_app, step by step
\* ctx = self.request_context(environ); error = None
StartRequest(w) ==
    /\ pc[w] = "idle"
    /\ served < (IF threaded THEN MaxThreadedRequests ELSE MaxRequests)
    /\ threaded \/ w = MainWorker
    /\ \E r \in app.traffic : request' = [request EXCEPT ![w] = r]
    /\ served' = served + 1
    /\ pc' = [pc EXCEPT ![w] = "created"]
    /\ events' = [events EXCEPT ![w] = <<Stage("Created")>>]
    /\ UNCHANGED <<setup, first_request, bfr_i, rv, exc, error, response, stacks>>

\* RequestContext.push: an application context is pushed first unless one
\* for this application is current, and the request context remembers
\* whether it pushed one.
RequestContextPush(w) ==
    LET pushed == RequestContextPushed(request_ctx_stack[w], app_ctx_stack[w],
                                       ThisApp, served)
    IN /\ app_ctx_stack' = [app_ctx_stack EXCEPT ![w] = pushed.app]
       /\ request_ctx_stack' = [request_ctx_stack EXCEPT ![w] = pushed.request]

\* ctx.push()
Push(w) ==
    /\ pc[w] = "created"
    /\ RequestContextPush(w)
    /\ pc' = [pc EXCEPT ![w] = "pushed"]
    /\ Emit(w, <<Stage("Pushed")>>
                \o (IF app_ctx_stack[w] = <<>>
                    THEN <<Ev("push_app", "", NoExc, NoneVal)>> ELSE <<>>))
    /\ UNCHANGED <<setup, first_request, served, request, bfr_i, rv, exc, error,
                   response>>

\* try_trigger_before_first_request_functions: "if self._got_first_request:
\* return", read without the lock.
TryTriggerCheck(w) ==
    /\ pc[w] = "pushed"
    /\ pc' = [pc EXCEPT ![w] =
                IF got_first_request THEN "first_checked" ELSE "lock_wait"]
    /\ Emit(w, <<Stage("FirstRequestChecked")>>)
    /\ UNCHANGED <<setup, first_request, served, request, bfr_i, rv, exc, error,
                   response, stacks>>

\* "with self._before_request_lock:" finds the lock held by another worker:
\* this worker blocks.
BlockOnLock(w) ==
    /\ pc[w] = "lock_wait"
    /\ before_request_lock \notin {NoWorker, w}
    /\ pc' = [pc EXCEPT ![w] = "lock_blocked"]
    /\ Emit(w, <<Ev("blocked", before_request_lock, NoExc, NoneVal)>>)
    /\ UNCHANGED <<setup, first_request, served, request, bfr_i, rv, exc, error,
                   response, stacks>>

\* "with self._before_request_lock:" entered: the lock is free and is taken.
AcquireLock(w) ==
    /\ pc[w] \in {"lock_wait", "lock_blocked"}
    /\ before_request_lock = NoWorker
    /\ before_request_lock' = w
    /\ pc' = [pc EXCEPT ![w] = "locked"]
    /\ UNCHANGED <<setup, got_first_request, bfr_calls, served, request, bfr_i,
                   rv, exc, error, response, stacks, events>>

\* The second "if self._got_first_request: return", under the lock; the
\* return leaves the with block and releases the lock.
Recheck(w) ==
    /\ pc[w] = "locked"
    /\ IF got_first_request
       THEN /\ before_request_lock' = NoWorker
            /\ pc' = [pc EXCEPT ![w] = "first_checked"]
            /\ UNCHANGED bfr_i
       ELSE /\ pc' = [pc EXCEPT ![w] = "bfr"]
            /\ bfr_i' = [bfr_i EXCEPT ![w] = 1]
            /\ UNCHANGED before_request_lock
    /\ UNCHANGED <<setup, got_first_request, bfr_calls, served, request, rv, exc,
                   error, response, stacks, events>>

\* A faulty loop: a function that raises leaves the lock held, as if it had
\* been taken with acquire() and released only at the end.
CallFirstRequestFuncKeepsLock(w) ==
    /\ pc[w] = "bfr"
    /\ bfr_i[w] <= Len(app.before_first_request_funcs)
    /\ LET f == app.before_first_request_funcs[bfr_i[w]]
       IN /\ bfr_calls' = [bfr_calls EXCEPT ![bfr_i[w]] = @ + 1]
          /\ \E raises \in BOOLEAN :
               IF raises
               THEN /\ exc' = [exc EXCEPT ![w] = Exc("AppError", f)]
                    /\ pc' = [pc EXCEPT ![w] = "except"]
                    /\ Emit(w, <<Call(f), RaisedBy(f, Exc("AppError", f))>>)
                    /\ UNCHANGED bfr_i
               ELSE /\ bfr_i' = [bfr_i EXCEPT ![w] = @ + 1]
                    /\ Emit(w, <<Call(f)>>)
                    /\ UNCHANGED <<exc, pc>>
    /\ UNCHANGED <<setup, before_request_lock, got_first_request, served, request,
                   rv, error, response, stacks>>

\* A faulty loop: a function that raises still marks the first request as
\* seen, as if the assignment stood in a finally clause.
CallFirstRequestFuncMarksDone(w) ==
    /\ pc[w] = "bfr"
    /\ bfr_i[w] <= Len(app.before_first_request_funcs)
    /\ LET f == app.before_first_request_funcs[bfr_i[w]]
       IN /\ bfr_calls' = [bfr_calls EXCEPT ![bfr_i[w]] = @ + 1]
          /\ \E raises \in BOOLEAN :
               IF raises
               THEN /\ before_request_lock' = NoWorker
                    /\ got_first_request' = TRUE
                    /\ exc' = [exc EXCEPT ![w] = Exc("AppError", f)]
                    /\ pc' = [pc EXCEPT ![w] = "except"]
                    /\ Emit(w, <<Call(f), RaisedBy(f, Exc("AppError", f))>>)
                    /\ UNCHANGED bfr_i
               ELSE /\ bfr_i' = [bfr_i EXCEPT ![w] = @ + 1]
                    /\ Emit(w, <<Call(f)>>)
                    /\ UNCHANGED <<before_request_lock, got_first_request, exc, pc>>
    /\ UNCHANGED <<setup, served, request, rv, error, response, stacks>>

\* One turn of "for func in self.before_first_request_funcs: func()".  A
\* function that raises ends the with block: the lock is released and the
\* exception leaves full_dispatch_request, whose try has not begun.
CallFirstRequestFunc(w) ==
    /\ pc[w] = "bfr"
    /\ bfr_i[w] <= Len(app.before_first_request_funcs)
    /\ LET f == app.before_first_request_funcs[bfr_i[w]]
       IN /\ bfr_calls' = [bfr_calls EXCEPT ![bfr_i[w]] = @ + 1]
          /\ \E raises \in BOOLEAN :
               IF raises
               THEN /\ before_request_lock' = NoWorker
                    /\ exc' = [exc EXCEPT ![w] = Exc("AppError", f)]
                    /\ pc' = [pc EXCEPT ![w] = "except"]
                    /\ Emit(w, <<Call(f), RaisedBy(f, Exc("AppError", f))>>)
                    /\ UNCHANGED bfr_i
               ELSE /\ bfr_i' = [bfr_i EXCEPT ![w] = @ + 1]
                    /\ Emit(w, <<Call(f)>>)
                    /\ UNCHANGED <<before_request_lock, exc, pc>>
    /\ UNCHANGED <<setup, got_first_request, served, request, rv, error, response,
                   stacks>>

\* "self._got_first_request = True", after the last function.
SetGotFirstRequest(w) ==
    /\ pc[w] = "bfr"
    /\ bfr_i[w] > Len(app.before_first_request_funcs)
    /\ got_first_request' = TRUE
    /\ pc' = [pc EXCEPT ![w] = "bfr_set"]
    /\ UNCHANGED <<setup, before_request_lock, bfr_calls, served, request, bfr_i,
                   rv, exc, error, response, stacks, events>>

\* The end of the with block: the lock is released.
ReleaseLock(w) ==
    /\ pc[w] = "bfr_set"
    /\ before_request_lock' = NoWorker
    /\ pc' = [pc EXCEPT ![w] = "first_checked"]
    /\ UNCHANGED <<setup, got_first_request, bfr_calls, served, request, bfr_i,
                   rv, exc, error, response, stacks, events>>

\* A faulty except clause: only HTTP exceptions are caught.
CaughtIfHttp(e) == IsInstance(e.cls, "HTTPException")

\* Where an exception raised inside the try of full_dispatch_request goes:
\* "except Exception" takes it to handle_user_exception; anything else
\* passes to the bare except of wsgi_app, which sets error and re-raises.
CaughtByDispatch(e) == IsInstance(e.cls, "Exception")

\* A faulty full_dispatch_request: the routing outcome is looked at before
\* preprocessing, and a request whose routing failed is not preprocessed.
PreprocessRoutedOnly(w) ==
    /\ pc[w] = "first_checked"
    /\ \E o \in (IF request[w].routing # None
                 THEN DispatchRequest(app, config, request[w])
                 ELSE PreprocessRequest(app, request[w].blueprint)) :
         /\ Emit(w, <<Ev("request_started", "", NoExc, NoneVal),
                      Stage("Preprocessed")>> \o o.evs)
         /\ rv' = [rv EXCEPT ![w] = o.rv]
         /\ exc' = [exc EXCEPT ![w] = o.exc]
         /\ pc' = [pc EXCEPT ![w] =
                     IF ~o.ok THEN "caught"
                     ELSE IF o.rv = NoneVal THEN "dispatch" ELSE "finalize"]
    /\ UNCHANGED <<setup, first_request, served, request, bfr_i, error, response,
                   stacks>>

\* request_started.send(self); rv = self.preprocess_request()
Preprocess(w) ==
    /\ pc[w] = "first_checked"
    /\ \E o \in PreprocessRequest(app, request[w].blueprint) :
         /\ Emit(w, <<Ev("request_started", "", NoExc, NoneVal),
                      Stage("Preprocessed")>> \o o.evs)
         /\ rv' = [rv EXCEPT ![w] = o.rv]
         /\ exc' = [exc EXCEPT ![w] = o.exc]
         /\ pc' = [pc EXCEPT ![w] =
                     IF ~o.ok THEN "caught"
                     ELSE IF o.rv = NoneVal THEN "dispatch" ELSE "finalize"]
    /\ UNCHANGED <<setup, first_request, served, request, bfr_i, error, response,
                   stacks>>

\* "if rv is None: rv = self.dispatch_request()"
Dispatch(w) ==
    /\ pc[w] = "dispatch"
    /\ \E o \in DispatchRequest(app, config, request[w]) :
         /\ Emit(w, <<Stage("Dispatched")>> \o o.evs)
         /\ rv' = [rv EXCEPT ![w] = o.rv]
         /\ exc' = [exc EXCEPT ![w] = o.exc]
         /\ error' = [error EXCEPT ![w] =
                        IF ~o.ok /\ ~CaughtByDispatch(o.exc) THEN o.exc ELSE @]
         /\ pc' = [pc EXCEPT ![w] =
                     IF o.ok THEN "finalize"
                     ELSE IF CaughtByDispatch(o.exc) THEN "caught" ELSE "finally"]
    /\ UNCHANGED <<setup, first_request, served, request, bfr_i, response, stacks>>

\* "except Exception as e: rv = self.handle_user_exception(e)"
Caught(w) ==
    /\ pc[w] = "caught"
    /\ \E o \in HandleUserException(app, config, error_handler_spec,
                                    request[w].blueprint, exc[w]) :
         /\ Emit(w, o.evs)
         /\ rv' = [rv EXCEPT ![w] = o.rv]
         /\ exc' = [exc EXCEPT ![w] = o.exc]
         /\ pc' = [pc EXCEPT ![w] = IF o.ok THEN "finalize" ELSE "except"]
    /\ UNCHANGED <<setup, first_request, served, request, bfr_i, error, response,
                   stacks>>

\* A faulty pipeline: the context is popped before the response is handed
\* to the gateway.
FinalizePopsBeforeResponding(w) ==
    /\ pc[w] = "finalize"
    /\ \E o \in FinalizeRequest(app, request[w].blueprint, rv[w], FALSE) :
         /\ Emit(w, o.evs)
         /\ response' = [response EXCEPT ![w] = o.rv]
         /\ exc' = [exc EXCEPT ![w] = o.exc]
         /\ pc' = [pc EXCEPT ![w] = IF o.ok THEN "finally" ELSE "except"]
    /\ UNCHANGED <<setup, first_request, served, request, bfr_i, rv, error, stacks>>

\* A faulty full_dispatch_request: finalize_request is called inside the
\* try, so that its exception goes to handle_user_exception.
FinalizeInsideTry(w) ==
    /\ pc[w] = "finalize"
    /\ \E o \in FinalizeRequest(app, request[w].blueprint, rv[w], FALSE) :
         /\ Emit(w, o.evs)
         /\ response' = [response EXCEPT ![w] = o.rv]
         /\ exc' = [exc EXCEPT ![w] = o.exc]
         /\ pc' = [pc EXCEPT ![w] = IF o.ok THEN "respond" ELSE "caught"]
    /\ UNCHANGED <<setup, first_request, served, request, bfr_i, rv, error, stacks>>

\* "return self.finalize_request(rv)"
Finalize(w) ==
    /\ pc[w] = "finalize"
    /\ \E o \in FinalizeRequest(app, request[w].blueprint, rv[w], FALSE) :
         /\ Emit(w, o.evs)
         /\ response' = [response EXCEPT ![w] = o.rv]
         /\ exc' = [exc EXCEPT ![w] = o.exc]
         /\ pc' = [pc EXCEPT ![w] = IF o.ok THEN "respond" ELSE "except"]
    /\ UNCHANGED <<setup, first_request, served, request, bfr_i, rv, error, stacks>>

\* A faulty wsgi_app: an exception that handle_exception raises leaves
\* without the finally clause running.
ExceptWithoutFinally(w) ==
    /\ pc[w] = "except"
    /\ error' = [error EXCEPT ![w] = exc[w]]
    /\ \E o \in HandleException(app, config, error_handler_spec,
                                request[w].blueprint, exc[w]) :
         /\ Emit(w, o.evs)
         /\ response' = [response EXCEPT ![w] = o.rv]
         /\ exc' = [exc EXCEPT ![w] = o.exc]
         /\ pc' = [pc EXCEPT ![w] = IF o.ok THEN "respond" ELSE "done"]
    /\ UNCHANGED <<setup, first_request, served, request, bfr_i, rv, stacks>>

\* "except Exception as e: error = e; response = self.handle_exception(e)"
Except(w) ==
    /\ pc[w] = "except"
    /\ error' = [error EXCEPT ![w] = exc[w]]
    /\ \E o \in HandleException(app, config, error_handler_spec,
                                request[w].blueprint, exc[w]) :
         /\ Emit(w, o.evs)
         /\ response' = [response EXCEPT ![w] = o.rv]
         /\ exc' = [exc EXCEPT ![w] = o.exc]
         /\ pc' = [pc EXCEPT ![w] = IF o.ok THEN "respond" ELSE "finally"]
    /\ UNCHANGED <<setup, first_request, served, request, bfr_i, rv, stacks>>

\* "return response(environ, start_response)"
Respond(w) ==
    /\ pc[w] = "respond"
    /\ Emit(w, <<Ev("respond", "", NoExc, response[w])>>)
    /\ pc' = [pc EXCEPT ![w] = "finally"]
    /\ UNCHANGED <<setup, first_request, served, request, bfr_i, rv, exc, error,
                   response, stacks>>

\* The guard of RequestContext.auto_pop: the context outlives the call when
\* the environ asks for it, or when the request failed and the application
\* preserves contexts on exceptions.
KeepContext(cfg, req, x) ==
    req.preserve \/ (x # NoExc /\ PreserveContextOnException(cfg))

\* What RequestContext.pop(exc) runs: the request teardown, then, when the
\* request context owns its application context, the application teardown.
\* Both contexts are popped whatever the callbacks do.  failed is the first
\* exception a teardown callback raised, or NoExc.
PopOutcomes(a, bp, owns_app, x) ==
    {[evs |-> <<Stage("TornDown")>> \o rq.evs
                \o <<Ev("pop_request", "", NoExc, NoneVal)>>
                \o (IF owns_app
                    THEN ap.evs \o <<Ev("pop_app", "", NoExc, NoneVal)>>
                    ELSE <<>>),
      failed |-> IF ~rq.ok THEN rq.exc
                 ELSE IF owns_app /\ ~ap.ok THEN ap.exc ELSE NoExc]
     : rq \in DoTeardownRequest(a, bp, x),
       ap \in IF owns_app THEN DoTeardownAppcontext(a, x)
              ELSE {Out(TRUE, NoneVal, NoExc, <<>>)}}

\* The finally clause of wsgi_app: "if self.should_ignore_error(error):
\* error = None; ctx.auto_pop(error)".  auto_pop either keeps the context
\* pushed, marked preserved, or pops it; a teardown failure is swallowed and
\* logged when the request had failed already, and raised otherwise.
AutoPop(w) ==
    /\ pc[w] = "finally"
    /\ LET x == IF ShouldIgnoreError(app.ignored_errors, error[w])
                THEN NoExc ELSE error[w]
           n == Len(request_ctx_stack[w])
           top == request_ctx_stack[w][n]
           entry == <<Ev("auto_pop", "", x, NoneVal)>>
       IN IF KeepContext(config, request[w], x)
          THEN /\ request_ctx_stack' =
                    [request_ctx_stack EXCEPT ![w][n].preserved = TRUE]
               /\ Emit(w, entry \o <<Ev("preserved", "", x, NoneVal)>>)
               /\ UNCHANGED <<app_ctx_stack, exc>>
          ELSE \E o \in PopOutcomes(app, request[w].blueprint, top.owns_app, x) :
               /\ request_ctx_stack' =
                    [request_ctx_stack EXCEPT ![w] = SubSeq(@, 1, n - 1)]
               /\ app_ctx_stack' =
                    [app_ctx_stack EXCEPT ![w] =
                        IF top.owns_app THEN SubSeq(@, 1, Len(@) - 1) ELSE @]
               /\ IF o.failed # NoExc /\ x # NoExc
                  THEN /\ Emit(w, entry \o o.evs
                                  \o <<Ev("logger.exception", "", o.failed, NoneVal)>>)
                       /\ UNCHANGED exc
                  ELSE /\ Emit(w, entry \o o.evs)
                       /\ exc' = [exc EXCEPT ![w] =
                                    IF o.failed # NoExc THEN o.failed ELSE @]
    /\ pc' = [pc EXCEPT ![w] = "done"]
    /\ UNCHANGED <<setup, first_request, served, request, bfr_i, rv, error,
                   response>>

\* wsgi_app has returned its response or raised exc; the worker is free for
\* the next request.
Return(w) ==
    /\ pc[w] = "done"
    /\ pc' = [pc EXCEPT ![w] = "idle"]
    /\ request' = [request EXCEPT ![w] = NoRequest]
    /\ bfr_i' = [bfr_i EXCEPT ![w] = 0]
    /\ rv' = [rv EXCEPT ![w] = NoneVal]
    /\ exc' = [exc EXCEPT ![w] = NoExc]
    /\ error' = [error EXCEPT ![w] = NoExc]
    /\ response' = [response EXCEPT ![w] = NoneVal]
    /\ events' = [events EXCEPT ![w] = <<>>]
    /\ UNCHANGED <<setup, first_request, served, stacks>>

\* One step of worker w in wsgi_app.
Serve(w) ==
    \/ StartRequest(w)
    \/ Push(w)
    \/ TryTriggerCheck(w)
    \/ AcquireLock(w)
    \/ Recheck(w)
    \/ CallFirstRequestFunc(w)
    \/ SetGotFirstRequest(w)
    \/ ReleaseLock(w)
    \/ Preprocess(w)
    \/ Dispatch(w)
    \/ Caught(w)
    \/ Finalize(w)
    \/ Except(w)
    \/ Respond(w)
    \/ AutoPop(w)
    \/ Return(w)

\* The single-threaded server: one thread serves every request, and the lock
\* is never contended.
Next == Serve(MainWorker)

Spec == Init /\ [][Next]_vars

\* The threaded server: the workers interleave step by step.
NextThreaded == \E w \in Workers : Serve(w) \/ BlockOnLock(w)

SpecThreaded == InitThreaded /\ [][NextThreaded]_vars

\* The steps of try_trigger_before_first_request_functions.
FirstRequestCheck(w) ==
    \/ TryTriggerCheck(w)
    \/ AcquireLock(w)
    \/ Recheck(w)
    \/ CallFirstRequestFunc(w)
    \/ SetGotFirstRequest(w)
    \/ ReleaseLock(w)

\* The threaded server in production, with no error handler registered and
\* with threads that run: a worker that can take a step
\* of the first-request check, and could take it from then on, takes it.
\* That is every before-first-request function returns or raises, the
\* scheduler runs every runnable thread, and a thread waiting for the lock
\* gets it once the lock stays free.
InitThreadedFair ==
    /\ app = PlainApp
    /\ config = DefaultConfig
    /\ error_handler_spec = EmptyRegistry
    /\ threaded = TRUE
    /\ lookup = NoLookup
    /\ IdleWorkers

SpecThreadedFair ==
    /\ InitThreadedFair
    /\ [][NextThreaded]_vars
    /\ \A w \in Workers : WF_vars(FirstRequestCheck(w))

\* ------------------------------------- the configuration changed at run time
\* The settings the propagation policy is computed from: DEBUG and TESTING
\* each way with PROPAGATE_EXCEPTIONS unset, and PROPAGATE_EXCEPTIONS set
\* against what DEBUG and TESTING say.
PolicyConfigs ==
    {[DefaultConfig EXCEPT !.DEBUG = d, !.TESTING = t,
                           !.PROPAGATE_EXCEPTIONS = p] :
        <<d, t, p>> \in (BOOLEAN \X BOOLEAN \X {None})
                        \cup {<<FALSE, FALSE, "True">>, <<TRUE, TRUE, "False">>}}

\* app.config[...] = value, app.debug = value or app.testing = value, done
\* by the operator while no request is being served.
Reconfigure ==
    /\ \A w \in Workers : pc[w] \in {"idle", "done"}
    /\ \E c \in PolicyConfigs \ {config} : config' = c
    /\ UNCHANGED <<app, error_handler_spec, threaded, lookup, usage,
                   first_request, served, pc, request, bfr_i, rv, exc, error,
                   response, stacks, events>>

\* A threaded server running the small application, constructed with the
\* default configuration and no error handler.
InitReconfig ==
    /\ app = SmallApp
    /\ config = DefaultConfig
    /\ error_handler_spec = EmptyRegistry
    /\ threaded = TRUE
    /\ lookup = NoLookup
    /\ IdleWorkers

NextReconfig == Reconfigure \/ \E w \in Workers : Serve(w) \/ BlockOnLock(w)

SpecReconfig == InitReconfig /\ [][NextReconfig]_vars

\* ------------------------------------------- what a view may hand back
\* The bodies, statuses and headers a view of the application below returns,
\* alone or in tuples of every length up to four.
Bodies ==
    {StrVal("ok"), NoneVal, Object, ExcVal("NotFound"),
     Response("page", "201", "Created", <<<<"Server", "x">>>>)}

Statuses == {IntVal("404"), StatusText("404", "Gone Fishing"), NoneVal}

HeaderLikes ==
    {DictVal(<<<<"X", "1">>>>), DictVal(<<>>), DictVal(<<<<"Server", "y">>>>)}

ReturnValues ==
    Bodies
    \cup {TupleVal(<<b, s>>) : b \in Bodies, s \in Statuses \cup HeaderLikes}
    \cup {TupleVal(<<b, s, h>>) :
            b \in Bodies, s \in Statuses, h \in HeaderLikes \cup {NoneVal}}
    \cup {TupleVal(<<>>)}
    \cup {TupleVal(<<b>>) : b \in Bodies}
    \cup {TupleVal(<<StrVal("ok"), IntVal("404"), DictVal(<<>>), NoneVal>>)}

\* An application whose view returns any of these values, with one
\* after-request function.
ResponseApp ==
    [SmallApp EXCEPT
        !.after_request_funcs = [n \in Blueprints |->
            IF n = None THEN <<"a1">> ELSE <<>>],
        !.view_returns = ReturnValues]

InitResponse ==
    /\ app = ResponseApp
    /\ config = DefaultConfig
    /\ error_handler_spec \in Registries
    /\ threaded = FALSE
    /\ lookup = NoLookup
    /\ IdleWorkers

SpecResponse == InitResponse /\ [][Next]_vars

\* ------------------------------------------- callbacks of every scope
\* An application with two callbacks of each kind of its own, callbacks of
\* the blueprint "bp" and callbacks of a blueprint "admin" that no request
\* belongs to, whose before-request functions may return an empty string.
\* Each list is in the order of registration.
Scoped(global, blueprint, other) ==
    [n \in Blueprints \cup {"admin"} |->
        IF n = None THEN global ELSE IF n = "bp" THEN blueprint ELSE other]

PipelineApp ==
    [SmallApp EXCEPT
        !.url_value_preprocessors = Scoped(<<"u1", "u2">>, <<"ub1">>, <<"ux">>),
        !.before_request_funcs = Scoped(<<"b1", "b2">>, <<"bb1">>, <<"bx">>),
        !.after_request_funcs = Scoped(<<"a1", "a2">>, <<"ab1", "ab2">>, <<"ax">>),
        !.teardown_request_funcs = Scoped(<<"t1", "t2">>, <<"tb1", "tb2">>, <<"tx">>),
        !.teardown_appcontext_funcs = <<"ta1", "ta2">>,
        !.before_returns = {EarlyValue, EmptyValue},
        !.after_marks = TRUE,
        !.traffic = {Request("GET", None, None, FALSE, FALSE),
                     Request("GET", "bp", None, FALSE, FALSE)}]

InitPipeline ==
    /\ app = PipelineApp
    /\ config = DefaultConfig
    /\ error_handler_spec \in Registries
    /\ threaded = FALSE
    /\ lookup = NoLookup
    /\ IdleWorkers

SpecPipeline == InitPipeline /\ [][Next]_vars

\* ------------------------------------------------- rules of every kind
\* An application with two endpoints, served requests of rules with and
\* without provide_automatic_options, with and without arguments from the
\* path, and one request no rule matched.
DispatchApp ==
    [SmallApp EXCEPT
        !.url_map = <<UrlRule("/", "index", {"GET", "POST", "OPTIONS"}, TRUE),
                      UrlRule("/show/<id>", "show", {"GET", "PUT", "OPTIONS"}, TRUE),
                      UrlRule("/show/<id>", "show", {"OPTIONS"}, FALSE)>>,
        !.view_functions = [e \in {"index", "show"} |->
            IF e = "index" THEN "index_view" ELSE "show_view"],
        !.traffic =
            {Request("GET", None, None, FALSE, FALSE),
             Request("OPTIONS", None, None, TRUE, FALSE),
             Request("POST", None, None, TRUE, FALSE),
             Matched(Request("OPTIONS", None, None, TRUE, FALSE),
                     "show", << <<"id", "7">> >>, "GET, OPTIONS, PUT"),
             Matched(Request("OPTIONS", None, None, FALSE, FALSE),
                     "show", << <<"id", "7">> >>, "GET, OPTIONS, PUT"),
             Matched(Request("GET", None, None, TRUE, FALSE),
                     "show", << <<"id", "7">> >>, "GET, OPTIONS, PUT"),
             Matched(Request("PUT", None, None, TRUE, FALSE),
                     "show", << <<"id", "8">> >>, "GET, OPTIONS, PUT"),
             Request("OPTIONS", None, "NotFound", FALSE, FALSE)}]

InitDispatch ==
    /\ app = DispatchApp
    /\ config \in {DefaultConfig, [DefaultConfig EXCEPT !.DEBUG = TRUE]}
    /\ error_handler_spec \in Registries
    /\ threaded = FALSE
    /\ lookup = NoLookup
    /\ IdleWorkers

SpecDispatch == InitDispatch /\ [][Next]_vars

\* ------------------------------------------- rules added at run time
\* The rules the URL map may hold: those the application is made with and
\* the ones added while it runs.
MaxUrlRules == 3

\* The methods argument of add_url_rule: absent ("none"), a string ("str")
\* or an iterable of strings ("iter").
Methods(kind, items) == [kind |-> kind, items |-> items]

\* The outcome of a call of a setup method: the exception it raised, if any,
\* and the URL map and the view registry it left.
SetupDone(x, a) == [x |-> x, url_map |-> a.url_map, view_functions |-> a.view_functions]

\* A faulty add_url_rule: the view registered last for an endpoint wins.
AddUrlRuleOverwrites(a, rule, endpoint, view_func, provide_automatic_options, methods) ==
    LET ep == IF endpoint = None THEN view_func ELSE endpoint
        given == IF methods.kind = "none" THEN {"GET"} ELSE methods.items
        pao == IF provide_automatic_options # None
               THEN provide_automatic_options = "True"
               ELSE "OPTIONS" \notin given
        required == IF provide_automatic_options = None /\ "OPTIONS" \notin given
                    THEN {"OPTIONS"} ELSE {}
        added == [a EXCEPT !.url_map =
                     Append(@, UrlRule(rule, ep, given \cup required, pao))]
    IN IF methods.kind = "str"
       THEN SetupDone(Exc("TypeError", "add_url_rule"), a)
       ELSE IF view_func = None THEN SetupDone(NoExc, added)
       ELSE SetupDone(NoExc,
                [added EXCEPT !.view_functions =
                    [e \in DOMAIN @ \cup {ep} |->
                        IF e = ep THEN view_func ELSE @[e]]])

\* The body of Flask.add_url_rule on the application a; view functions are
\* known by their names, and the endpoint of a view function is its name.
\* provide_automatic_options is None, "True" or "False".
AddUrlRule(a, rule, endpoint, view_func, provide_automatic_options, methods) ==
    LET ep == IF endpoint = None THEN view_func ELSE endpoint
        given == IF methods.kind = "none" THEN {"GET"} ELSE methods.items
        pao == IF provide_automatic_options # None
               THEN provide_automatic_options = "True"
               ELSE "OPTIONS" \notin given
        required == IF provide_automatic_options = None /\ "OPTIONS" \notin given
                    THEN {"OPTIONS"} ELSE {}
        added == [a EXCEPT !.url_map =
                     Append(@, UrlRule(rule, ep, given \cup required, pao))]
        old_func == IF ep \in DOMAIN a.view_functions
                    THEN a.view_functions[ep] ELSE None
    IN IF methods.kind = "str"
       THEN SetupDone(Exc("TypeError", "add_url_rule"), a)
       ELSE IF view_func = None THEN SetupDone(NoExc, added)
       ELSE IF old_func # None /\ old_func # view_func
       THEN SetupDone(Exc("AssertionError", "add_url_rule"), added)
       ELSE SetupDone(NoExc,
                [added EXCEPT !.view_functions =
                    [e \in DOMAIN @ \cup {ep} |->
                        IF e = ep THEN view_func ELSE @[e]]])

\* A faulty setupmethod: the check is made in debug mode or not.
SetupMethodAnyMode(cfg, got, a, done) ==
    IF got THEN SetupDone(Exc("AssertionError", "setupmethod"), a) ELSE done

\* A faulty setupmethod: the method runs and the error is raised afterwards.
SetupMethodChecksLate(cfg, got, a, done) ==
    IF cfg.DEBUG /\ got
    THEN [done EXCEPT !.x = Exc("AssertionError", "setupmethod")]
    ELSE done

\* The wrapper setupmethod puts around a method: in debug mode after the
\* first request it raises, and the method, whose outcome on the
\* application a is `done`, is not called.
SetupMethod(cfg, got, a, done) ==
    IF cfg.DEBUG /\ got
    THEN SetupDone(Exc("AssertionError", "setupmethod"), a)
    ELSE done

\* Flask.route(rule, **options)(f): the decorator calls add_url_rule with the
\* endpoint option, None when there is none.
Route(cfg, got, a, rule, endpoint, methods, f) ==
    SetupMethod(cfg, got, a, AddUrlRule(a, rule, endpoint, f, None, methods))

\* The calls of add_url_rule application code makes: a new rule with a new
\* view, another rule for the view of "index", a rule without a view, a rule
\* that would give the endpoint "index" another view, a rule whose methods
\* are a string, and a rule that names the endpoint of the new view for
\* another view.
RuleCalls ==
    {[rule |-> "/other", endpoint |-> "new_view", view_func |-> "other_view",
      provide_automatic_options |-> None, methods |-> Methods("none", {})]} \cup
    {[rule |-> "/new", endpoint |-> None, view_func |-> "new_view",
      provide_automatic_options |-> None, methods |-> Methods("none", {})],
     [rule |-> "/", endpoint |-> "index", view_func |-> "index_view",
      provide_automatic_options |-> "False", methods |-> Methods("iter", {"POST", "OPTIONS"})],
     [rule |-> "/static", endpoint |-> "index", view_func |-> None,
      provide_automatic_options |-> None, methods |-> Methods("iter", {"GET", "OPTIONS"})],
     [rule |-> "/new", endpoint |-> "index", view_func |-> "new_view",
      provide_automatic_options |-> None, methods |-> Methods("none", {})],
     [rule |-> "/new", endpoint |-> None, view_func |-> "new_view",
      provide_automatic_options |-> None, methods |-> Methods("str", {"POST"})]}

\* The uses of the route decorator application code makes.
RouteCalls ==
    {[rule |-> "/new", endpoint |-> None, view_func |-> "new_view",
      provide_automatic_options |-> None, methods |-> Methods("none", {})],
     [rule |-> "/new", endpoint |-> "index", view_func |-> "new_view",
      provide_automatic_options |-> None, methods |-> Methods("iter", {"POST"})]}

\* Application code calls app.add_url_rule(...), at any time.  `usage` holds
\* the last call of a setup method: its arguments, debug and
\* _got_first_request when it was made, and the exception it raised.
CallAddUrlRule ==
    /\ Len(app.url_map) < MaxUrlRules
    /\ \E c \in RuleCalls :
         LET done == SetupMethod(config, got_first_request, app,
                        AddUrlRule(app, c.rule, c.endpoint, c.view_func,
                                   c.provide_automatic_options, c.methods))
         IN /\ app' = [app EXCEPT !.url_map = done.url_map,
                                  !.view_functions = done.view_functions]
            /\ usage' = <<[op |-> "add_url_rule", call |-> c, debug |-> config.DEBUG,
                            got |-> got_first_request, x |-> done.x]>>
    /\ UNCHANGED <<config, error_handler_spec, threaded, lookup, first_request,
                   served, pc, request, bfr_i, rv, exc, error, response,
                   stacks, events>>

\* Application code decorates a function with app.route(...), at any time.
CallRoute ==
    /\ Len(app.url_map) < MaxUrlRules
    /\ \E c \in RouteCalls :
         LET done == Route(config, got_first_request, app, c.rule, c.endpoint,
                           c.methods, c.view_func)
         IN /\ app' = [app EXCEPT !.url_map = done.url_map,
                                  !.view_functions = done.view_functions]
            /\ usage' = <<[op |-> "route", call |-> c, debug |-> config.DEBUG,
                            got |-> got_first_request, x |-> done.x]>>
    /\ UNCHANGED <<config, error_handler_spec, threaded, lookup, first_request,
                   served, pc, request, bfr_i, rv, exc, error, response,
                   stacks, events>>

\* The small application served in production or in debug mode while rules
\* are added to it.
InitSetup ==
    /\ app = SmallApp
    /\ config \in {DefaultConfig, [DefaultConfig EXCEPT !.DEBUG = TRUE]}
    /\ error_handler_spec = EmptyRegistry
    /\ threaded = FALSE
    /\ lookup = NoLookup
    /\ IdleWorkers

NextSetup == CallAddUrlRule \/ CallRoute \/ Serve(MainWorker)

SpecSetup == InitSetup /\ [][NextSetup]_vars

\* ------------------------------------------- errors nobody handles
\* The small application with a view that may return None or raise and
\* with teardown functions, of a subclass of Flask whose should_ignore_error
\* is true for a KeyError, served requests of the application and of the
\* blueprint and one whose method the rule does not allow, with HTTP
\* exceptions trapped or not, against a registry with a 500 handler of the
\* application and one that has a 500 handler of the blueprint as well.
InitErrors ==
    /\ app = [SmallApp EXCEPT
                !.view_returns = {StrVal("ok"), NoneVal},
                !.view_raises = {"AppError", "KeyError", "SystemExit"},
                !.teardown_request_funcs = [n \in Blueprints |->
                    IF n = None THEN <<"t1">> ELSE <<"tb1">>],
                !.teardown_appcontext_funcs = <<"ta1">>,
                !.ignored_errors = {"KeyError"},
                !.traffic = {Request("GET", None, None, FALSE, FALSE),
                             Request("GET", "bp", None, FALSE, FALSE),
                             Request("POST", "bp", "MethodNotAllowed", FALSE, FALSE)}]
    /\ config \in {DefaultConfig, [DefaultConfig EXCEPT !.TRAP_HTTP_EXCEPTIONS = TRUE]}
    /\ error_handler_spec \in
          {FullRegistry,
           WithHandler(FullRegistry, "bp", "500", "InternalServerError", "hBp500")}
    /\ threaded = FALSE
    /\ lookup = NoLookup
    /\ IdleWorkers

SpecErrors == InitErrors /\ [][Next]_vars

\* ------------------------------------------- exceptions of every kind
\* The small application with a before-request function and a view that
\* raises HTTP exceptions with and without a code, bad request errors and
\* exceptions of its own, served
\* requests of the application and of the blueprint under every setting of
\* DEBUG and of the two trap keys, against the empty registry and one that
\* has a handler for the class HTTPException besides those for codes and for
\* AppError.
InitHandlers ==
    /\ app = [SmallApp EXCEPT
                !.view_raises = {"HTTPException", "NotFound", "MethodNotAllowed",
                                 "BadRequest", "BadRequestKeyError",
                                 "AppError", "KeyError"},
                !.before_request_funcs = [n \in Blueprints |->
                                            IF n = None THEN <<"b1">> ELSE <<>>],
                !.traffic = {Request("GET", None, None, FALSE, FALSE),
                             Request("GET", "bp", None, FALSE, FALSE)}]
    /\ config \in {c \in Configs : /\ ~c.TESTING
                                   /\ c.PROPAGATE_EXCEPTIONS = None
                                   /\ c.PRESERVE_CONTEXT_ON_EXCEPTION = None}
    /\ error_handler_spec \in
          {EmptyRegistry,
           WithHandler(FullRegistry, None, None, "HTTPException", "hHttp")}
    /\ threaded = FALSE
    /\ lookup = NoLookup
    /\ IdleWorkers

SpecHandlers == InitHandlers /\ [][Next]_vars

\* ------------------------------------ contexts pushed by application code
\* Context operations one script of application code makes.
MaxContextOps == 5

\* An application with teardown callbacks and nothing else of its own; every
\* application of the script is made like it.
TeardownApp ==
    [PlainApp EXCEPT
        !.teardown_request_funcs = [n \in Blueprints |->
            IF n = None THEN <<"t1">> ELSE <<>>],
        !.teardown_appcontext_funcs = <<"ta1", "ta2">>]

\* One operation of the script as `usage` records it: a push or a pop on
\* the application or the request stack, or the read of a proxy; the id of
\* the context and its application (for a read, the proxy); the id that was
\* on top of the stack before; the exception raised to the caller, with the
\* message and the value of a read; the teardown events; and the depths of
\* both stacks afterwards.
Use(op, stack, ctx, a, top, x, read, evs, rs, as) ==
    [op |-> op, stack |-> stack, ctx |-> ctx, a |-> a, top |-> top, x |-> x,
     msg |-> read.msg, value |-> read.value, evs |-> evs,
     request_depth |-> Len(rs), app_depth |-> Len(as)]

NoRead == Read(NoExc, "", <<>>)

\* The id on top of a stack, 0 when it is empty.
TopId(s, field) == IF s = <<>> THEN 0 ELSE s[Len(s)][field]

\* A pop of the wrong context is fatal: the script ends there.  It is
\* followed up to its first read of a proxy as well: a read leaves the stacks
\* as they are, so what follows it is what follows without it.
Ended ==
    /\ usage # <<>>
    /\ \/ usage[Len(usage)].x.cls = "AssertionError"
       \/ usage[Len(usage)].op = "read"

CanUse == Len(usage) < MaxContextOps /\ ~Ended

fixed == <<app, config, error_handler_spec, threaded, lookup>>
serving == <<first_request, served, pc, request, bfr_i, rv, exc, error, response,
             events>>

InitContexts ==
    /\ app = TeardownApp
    /\ config = DefaultConfig
    /\ error_handler_spec = EmptyRegistry
    /\ threaded = FALSE
    /\ lookup = NoLookup
    /\ IdleWorkers

\* app.app_context().push() for one of the applications.
PushAppContext ==
    /\ CanUse
    /\ \E a \in Applications :
         LET as0 == app_ctx_stack[MainWorker]
             as1 == AppContextPush(as0, a, Len(usage) + 1)
         IN /\ app_ctx_stack' = [app_ctx_stack EXCEPT ![MainWorker] = as1]
            /\ usage' = Append(usage,
                    Use("push", "app", TopId(as1, "id"), a, TopId(as0, "id"),
                        NoExc, NoRead, <<>>, request_ctx_stack[MainWorker], as1))
    /\ UNCHANGED <<fixed, serving, request_ctx_stack>>

\* The outcomes of tearing an application context down, or of not doing so.
AppTeardown(a, torn) ==
    IF torn THEN DoTeardownAppcontext(a, NoExc) ELSE {Out(TRUE, NoneVal, NoExc, <<>>)}

\* ctx.pop() of an application context on the stack, the top or not.
PopAppContext ==
    /\ CanUse
    /\ \E i \in 1..Len(app_ctx_stack[MainWorker]) :
         LET as0 == app_ctx_stack[MainWorker]
             r == AppContextPop(as0, i)
         IN \E o \in AppTeardown(app, r.torn) :
              /\ app_ctx_stack' = [app_ctx_stack EXCEPT ![MainWorker] = r.stack]
              /\ usage' = Append(usage,
                      Use("pop", "app", as0[i].id, as0[i].app, TopId(as0, "id"),
                          IF r.rejected THEN Exc("AssertionError", "AppContext.pop")
                          ELSE o.exc,
                          NoRead, o.evs, request_ctx_stack[MainWorker], r.stack))
    /\ UNCHANGED <<fixed, serving, request_ctx_stack>>

\* app.request_context(environ).push() for one of the applications.
PushRequestContext ==
    /\ CanUse
    /\ \E a \in Applications :
         LET rs0 == request_ctx_stack[MainWorker]
             pushed == RequestContextPushed(rs0, app_ctx_stack[MainWorker], a,
                                            Len(usage) + 1)
         IN /\ request_ctx_stack' =
                 [request_ctx_stack EXCEPT ![MainWorker] = pushed.request]
            /\ app_ctx_stack' = [app_ctx_stack EXCEPT ![MainWorker] = pushed.app]
            /\ usage' = Append(usage,
                    Use("push", "request", Len(usage) + 1, a, TopId(rs0, "rid"),
                        NoExc, NoRead, <<>>, pushed.request, pushed.app))
    /\ UNCHANGED <<fixed, serving>>

\* What RequestContext pop does to the application stack as for the request
\* context c: the application context c pushed is popped, which is fatal
\* when it is not on top of the stack.
OwnedAppContextPop(as, c) ==
    LET at == {i \in 1..Len(as) : as[i].id = c.app_ctx}
    IN IF ~c.owns_app THEN [stack |-> as, torn |-> FALSE, rejected |-> FALSE]
       ELSE IF at = {} THEN [stack |-> as, torn |-> FALSE, rejected |-> TRUE]
       ELSE AppContextPop(as, CHOOSE i \in at : TRUE)

\* ctx.pop() of a request context on the stack, the top or not: the request
\* teardown, the request context popped, then its application context.
PopRequestContext ==
    /\ CanUse
    /\ \E j \in 1..Len(request_ctx_stack[MainWorker]) :
         LET rs0 == request_ctx_stack[MainWorker]
             as0 == app_ctx_stack[MainWorker]
             c == rs0[j]
             rs1 == SubSeq(rs0, 1, Len(rs0) - 1)
             r == IF j # Len(rs0)
                  THEN [stack |-> as0, torn |-> FALSE, rejected |-> TRUE]
                  ELSE OwnedAppContextPop(as0, c)
         IN \E rq \in DoTeardownRequest(app, None, NoExc),
               ap \in AppTeardown(app, r.torn) :
              /\ request_ctx_stack' = [request_ctx_stack EXCEPT ![MainWorker] = rs1]
              /\ app_ctx_stack' = [app_ctx_stack EXCEPT ![MainWorker] = r.stack]
              /\ usage' = Append(usage,
                      Use("pop", "request", c.rid, c.app, TopId(rs0, "rid"),
                          IF j # Len(rs0)
                          THEN Exc("AssertionError", "RequestContext.pop")
                          ELSE IF r.rejected
                          THEN Exc("AssertionError", "AppContext.pop")
                          ELSE IF ~rq.ok THEN rq.exc ELSE ap.exc,
                          NoRead, rq.evs \o ap.evs, rs1, r.stack))
    /\ UNCHANGED <<fixed, serving>>

\* current_app, request, session or g is read.
ReadProxyObject ==
    /\ CanUse
    /\ \E name \in Proxies :
         LET r == ReadProxy(name, request_ctx_stack[MainWorker],
                            app_ctx_stack[MainWorker])
         IN usage' = Append(usage,
                Use("read", "proxy", 0, name, 0, r.x, r, <<>>,
                    request_ctx_stack[MainWorker], app_ctx_stack[MainWorker]))
    /\ UNCHANGED <<fixed, serving, stacks>>

NextContexts ==
    \/ PushAppContext
    \/ PopAppContext
    \/ PushRequestContext
    \/ PopRequestContext
    \/ ReadProxyObject

SpecContexts == InitContexts /\ [][NextContexts]_vars

\* --------------------------------------------- the handler lookup alone
\* Registration stores a handler under the class and the code that
\* _get_exc_class_and_code gives for it.
Registered(reg, name, cls, h) ==
    WithHandler(reg, name, GetExcClassAndCode(cls)[2], cls, h)

\* The places handlers are registered at in the lookup's registries, each
\* with a handler of its own.
Slots ==
    << <<"bp", "BadRequestKeyError", "hBpKey">>,
       <<"bp", "BadRequest", "hBpBad">>,
       <<None, "BadRequestKeyError", "hKey">>,
       <<None, "BadRequest", "hBad">>,
       <<"bp", "HTTPException", "hBpHttp">>,
       <<None, "HTTPException", "hHttp">>,
       <<None, "KeyError", "hKeyError">>,
       <<"bp", "AppError", "hBpApp">>,
       <<None, "AppError", "hApp">>,
       <<None, "Exception", "hAny">>,
       <<"other", "BadRequest", "hOtherBad">> >>

\* The registry with the handlers of the slots numbered in S, from slot k on.
RECURSIVE RegistryOf(_, _)
RegistryOf(S, k) ==
    IF k > Len(Slots) THEN EmptyRegistry
    ELSE IF k \in S
         THEN Registered(RegistryOf(S, k + 1), Slots[k][1], Slots[k][2], Slots[k][3])
         ELSE RegistryOf(S, k + 1)

LookupRegistries == {RegistryOf(S, 1) : S \in SUBSET (1..Len(Slots))}

\* The classes an exception handed to _find_error_handler may have.
LookupClasses ==
    {"BadRequestKeyError", "BadRequest", "NotFound", "HTTPException",
     "KeyError", "AppError", "SubAppError", "Exception"}

InitLookup ==
    /\ app = PlainApp
    /\ config = DefaultConfig
    /\ error_handler_spec \in LookupRegistries
    /\ threaded = FALSE
    /\ lookup = NoLookup
    /\ IdleWorkers

\* self._find_error_handler(e) with request.blueprint = blueprint.
FindHandler ==
    /\ ~lookup.done
    /\ \E blueprint \in Scopes, cls \in LookupClasses :
         lookup' = [blueprint |-> blueprint, cls |-> cls,
                    handler |-> FindErrorHandler(error_handler_spec, blueprint, cls),
                    done |-> TRUE]
    /\ UNCHANGED <<app, config, error_handler_spec, threaded, usage,
                   first_request, served, pc, request, bfr_i, rv, exc, error,
                   response, stacks, events>>

NextLookup == FindHandler

SpecLookup == InitLookup /\ [][NextLookup]_vars

\* ------------------------------------------------- reading a request's trace
Positions(evs, e) == {i \in 1..Len(evs) : evs[i].e = e}
StagePositions(evs, name) == {i \in 1..Len(evs) : evs[i] = Stage(name)}
CallPositions(evs, f) == {i \in 1..Len(evs) : evs[i].e = "call" /\ evs[i].a = f}
RaisePositions(evs) == {i \in 1..Len(evs) : evs[i].e \in {"raised", "reraise"}}

\* The functions of a callback dict, whatever the name they are registered under.
AllFuncs(funcs) == UNION {SeqRange(funcs[n]) : n \in DOMAIN funcs}

\* ------------------------------------------------------- first request hooks
\* The places of wsgi_app a worker reaches only through a passed first-request
\* check.
PastFirstCheck == {"first_checked", "dispatch", "caught", "finalize"}

\* C1, as stated: each before-first-request callback is called exactly once
\* over the application's lifetime, however many workers and requests there
\* are: never a second time, and once by the time a worker is past the
\* first-request check.
C1_EachCallbackExactlyOnce ==
    /\ \A i \in DOMAIN bfr_calls : bfr_calls[i] <= 1
    /\ \A w \in Workers :
         pc[w] \in PastFirstCheck => \A i \in DOMAIN bfr_calls : bfr_calls[i] = 1

\* C2, as stated: while a worker runs the before-first-request callbacks no
\* other worker is preprocessing or dispatching; a worker that blocked on the
\* lock goes on without calling the callbacks itself; and the lock is held
\* only inside the first-request check.
C2_BlockedWorkerSkipsCallbacks ==
    \A w \in Workers :
        /\ pc[w] = "bfr" =>
             \A v \in Workers \ {w} : pc[v] \notin PastFirstCheck
        /\ Positions(events[w], "blocked") # {} =>
             \A f \in SeqRange(app.before_first_request_funcs) :
                 CallPositions(events[w], f) = {}
        /\ before_request_lock = w => pc[w] \in {"locked", "bfr", "bfr_set"}

\* ------------------------------------------------------------------ teardown
TeardownFuncs ==
    AllFuncs(app.teardown_request_funcs) \cup SeqRange(app.teardown_appcontext_funcs)

TeardownPositions(evs) ==
    Positions(evs, "do_teardown_request") \cup Positions(evs, "do_teardown_appcontext")
    \cup UNION {CallPositions(evs, f) : f \in TeardownFuncs}

StageNames ==
    <<"Created", "Pushed", "FirstRequestChecked", "Preprocessed", "Dispatched",
      "Finalized", "TornDown">>

StageNo(name) == CHOOSE k \in 1..Len(StageNames) : StageNames[k] = name

\* C4: a request enters the stages in the order Created, Pushed,
\* FirstRequestChecked, Preprocessed, Dispatched, Finalized, TornDown.  It
\* never goes back to an earlier stage and re-enters none but Finalized (for
\* the result of the 500 handler); a stage is entered only after its
\* predecessor, or after an exception was raised; Dispatched is entered only
\* after Preprocessed with no before_request function having returned a
\* value, and Finalized without Dispatched only after such a short-circuit
\* or after an exception; teardown starts only right after the response was
\* handed to the gateway or an exception was raised out of the dispatch.
C4_StagesInOrder ==
    \A w \in Workers :
        LET evs == events[w]
            At(name) == StagePositions(evs, name)
            stages == Positions(evs, "stage")
            Before(S, i) == \E j \in S : j < i
            ErrorBefore(i) == Before(RaisePositions(evs), i)
            ShortCircuitBefore(i) ==
                \E j \in 1..(i - 1) : evs[j].e = "call" /\ evs[j].v # NoneVal
        IN /\ \A i, j \in stages :
                i < j => /\ StageNo(evs[i].a) <= StageNo(evs[j].a)
                         /\ evs[i].a = evs[j].a =>
                              evs[i].a = "Finalized" /\ ErrorBefore(j)
           /\ pc[w] # "idle" => At("Created") = {1}
           /\ \A i \in At("Pushed") : Before(At("Created"), i)
           /\ \A i \in At("FirstRequestChecked") : Before(At("Pushed"), i)
           /\ \A i \in At("Preprocessed") :
                Before(At("FirstRequestChecked"), i) /\ ~ErrorBefore(i)
           /\ \A i \in At("Dispatched") :
                /\ Before(At("Preprocessed"), i)
                /\ ~ErrorBefore(i) /\ ~ShortCircuitBefore(i)
           /\ \A i \in At("Finalized") :
                \/ Before(At("Dispatched"), i)
                \/ Before(At("Preprocessed"), i) /\ ShortCircuitBefore(i)
                \/ ErrorBefore(i)
           /\ \A i \in At("TornDown") :
                /\ i > 2 /\ evs[i - 1].e = "auto_pop"
                /\ evs[i - 2].e \in {"respond", "raised", "reraise"}

\* A request that went through all seven stages.
C4_Witness ==
    \E w \in Workers :
        /\ pc[w] = "done"
        /\ \A k \in 1..Len(StageNames) : StagePositions(events[w], StageNames[k]) # {}

\* ------------------------------------------------ exceptions in the dispatch
\* What raises inside the try of full_dispatch_request.
DispatchSources(a) ==
    AllFuncs(a.url_value_preprocessors) \cup AllFuncs(a.before_request_funcs)
    \cup {"routing", "view"}

\* C5: an exception (an instance of Exception) raised by preprocessing, by
\* routing or by the view is handed to handle_user_exception next, and
\* handle_user_exception is called for nothing else and at most once.  When
\* it returns a value (the handler's result, or the HTTP exception itself
\* when nothing handles it) that value becomes rv and finalize_request is
\* called with it, from_error_handler false, as for a view's return value;
\* when it raises, finalize_request is not called for rv.
C5_CaughtOnceAndFinalized ==
    \A w \in Workers :
        LET evs == events[w]
            hue == Positions(evs, "handle_user_exception")
            raises == {i \in Positions(evs, "raised") :
                         /\ evs[i].a \in DispatchSources(app)
                         /\ IsInstance(evs[i].x.cls, "Exception")}
            fin == {i \in Positions(evs, "finalize_request") : evs[i].a = "False"}
        IN /\ Cardinality(hue) <= 1
           /\ \A i \in raises :
                IF Len(evs) = i
                THEN pc[w] = "caught" /\ exc[w] = evs[i].x
                ELSE evs[i + 1] = Ev("handle_user_exception", "", evs[i].x, NoneVal)
           /\ \A h \in hue : h - 1 \in raises
           /\ \A h \in hue :
                LET e == evs[h].x
                    handled == Len(evs) > h /\ evs[h + 1].e = "handler"
                    raised == Len(evs) > h /\
                                \/ evs[h + 1].e = "reraise"
                                \/ /\ handled /\ Len(evs) > h + 1
                                   /\ evs[h + 2].e = "raised"
                    value == IF handled THEN evs[h + 1].v ELSE ExcVal(e.cls)
                IN IF raised
                   THEN fin = {} /\ pc[w] # "finalize"
                   ELSE IF pc[w] = "finalize"
                   THEN fin = {} /\ rv[w] = value
                   ELSE \E f \in fin :
                          /\ fin = {f}
                          /\ evs[f] = Ev("finalize_request", "False", NoExc, value)
                          /\ evs[f - 1] = Stage("Finalized")

\* A view raised, a registered handler returned a value for the exception,
\* and finalize_request ran on that value.
C5_Witness ==
    \E w \in Workers :
        \E h \in Positions(events[w], "handle_user_exception") :
            /\ events[w][h - 1] = RaisedBy("view", events[w][h].x)
            /\ Len(events[w]) >= h + 3
            /\ events[w][h + 1].e = "handler"
            /\ events[w][h + 3] =
                 Ev("finalize_request", "False", NoExc, events[w][h + 1].v)
            /\ Positions(events[w], "request_finished") # {}

\* C8, as stated: when trap_http_exception is true for an HTTP exception,
\* handle_user_exception calls no error handler and re-raises the exception.
C8_TrappedBypassesHandlers ==
    \A w \in Workers :
        \A h \in Positions(events[w], "handle_user_exception") :
            LET e == events[w][h].x
            IN IsInstance(e.cls, "HTTPException") /\ TrapHttpException(config, e.cls) =>
                 /\ Len(events[w]) > h
                 /\ events[w][h + 1] = Ev("reraise", "", e, NoneVal)

C10_LoggedBeforePropagation ==
    \A w \in Workers :
        \A g \in Positions(events[w], "got_request_exception") :
            /\ Len(events[w]) > g
            /\ events[w][g + 1] = LogException(events[w][g].x)

\* C10, amended: an exception that reaches handle_exception is logged exactly
\* when the propagation policy is off, once, after the policy was looked at
\* and before the 500 handler is called; in propagation mode it is raised
\* again and log_exception is not called.
C10_LoggedUnlessPropagated ==
    \A w \in Workers :
        LET evs == events[w]
            logs == Positions(evs, "log_exception")
        IN /\ \A l \in logs : l - 1 \in Positions(evs, "got_request_exception")
           /\ \A g \in Positions(evs, "got_request_exception") :
                IF PropagateExceptions(config)
                THEN logs = {} /\ evs[g + 1] = Ev("reraise", "", evs[g].x, NoneVal)
                ELSE /\ logs = {g + 1}
                     /\ evs[g + 1] = LogException(evs[g].x)
                     /\ \A i \in Positions(evs, "handler") :
                          evs[i].x = evs[g].x /\ i > g => i > g + 1

\* An exception was logged and then handed to the registered 500 handler.
C10_Witness ==
    \E w \in Workers :
        \E g \in Positions(events[w], "got_request_exception") :
            /\ ~PropagateExceptions(config)
            /\ Len(events[w]) >= g + 2
            /\ events[w][g + 1].e = "log_exception"
            /\ events[w][g + 2].e = "handler"

\* ------------------------------------------------------- the handler lookup
\* The k-th (name, code) bucket of a lookup for class cls under blueprint bp.
BucketName(bp, k) == IF k \in {1, 3} THEN bp ELSE None
BucketCode(cls, k) == IF k \in {1, 2} THEN ClassCode(cls) ELSE None
BucketMap(reg, bp, cls, k) == reg[BucketName(bp, k)][BucketCode(cls, k)]

\* The handlers bucket k holds for the classes of the exception's hierarchy.
BucketHandlers(reg, bp, cls, k) ==
    {BucketMap(reg, bp, cls, k)[c] : c \in SeqRange(Mro(cls))} \ {NoHandler}

\* C6: the lookup returns a handler of the first of the buckets (blueprint,
\* code), (application, code), (blueprint, no code), (application, no code)
\* that holds one for a class of the exception's hierarchy.  When a handler
\* of the application and one of the request's blueprint are both registered
\* for the class of the exception, the blueprint's is returned.
C6_FirstBucketWins ==
    lookup.done =>
        LET reg == error_handler_spec
            bp == lookup.blueprint
            cls == lookup.cls
            code == ClassCode(cls)
        IN /\ \A k \in 1..4 :
                /\ BucketHandlers(reg, bp, cls, k) # {}
                /\ \A j \in 1..(k - 1) : BucketHandlers(reg, bp, cls, j) = {}
                => lookup.handler \in BucketHandlers(reg, bp, cls, k)
           /\ bp # None /\ reg[bp][code][cls] # NoHandler
              /\ reg[None][code][cls] # NoHandler
              => lookup.handler = reg[bp][code][cls]

\* A request of the blueprint raised AppError with a handler registered for
\* AppError on the application and one on the blueprint.
C6_Witness ==
    /\ lookup.done
    /\ lookup.blueprint = "bp" /\ lookup.cls = "AppError"
    /\ error_handler_spec[None][None]["AppError"] = "hApp"
    /\ error_handler_spec["bp"][None]["AppError"] = "hBpApp"
    /\ lookup.handler = "hBpApp"

\* C7: inside the first bucket that holds a handler for a class of the
\* hierarchy, the handler of the most specific such class is returned,
\* whatever later buckets hold, also for the exact class; and the lookup
\* returns none exactly when no bucket holds a handler for any class of the
\* hierarchy.
C7_MostSpecificInBucket ==
    lookup.done =>
        LET reg == error_handler_spec
            bp == lookup.blueprint
            cls == lookup.cls
            mro == Mro(cls)
        IN /\ lookup.handler = NoHandler <=>
                \A k \in 1..4 : BucketHandlers(reg, bp, cls, k) = {}
           /\ \A k \in 1..4 :
                /\ BucketHandlers(reg, bp, cls, k) # {}
                /\ \A j \in 1..(k - 1) : BucketHandlers(reg, bp, cls, j) = {}
                => \E i \in 1..Len(mro) :
                     /\ lookup.handler = BucketMap(reg, bp, cls, k)[mro[i]]
                     /\ lookup.handler # NoHandler
                     /\ \A j \in 1..(i - 1) :
                          BucketMap(reg, bp, cls, k)[mro[j]] = NoHandler

\* The blueprint's handler for the base class BadRequest is returned for a
\* BadRequestKeyError although the application has a handler for
\* BadRequestKeyError itself.
C7_Witness ==
    /\ lookup.done
    /\ lookup.blueprint = "bp" /\ lookup.cls = "BadRequestKeyError"
    /\ error_handler_spec["bp"]["400"]["BadRequestKeyError"] = NoHandler
    /\ error_handler_spec["bp"]["400"]["BadRequest"] = "hBpBad"
    /\ error_handler_spec[None]["400"]["BadRequestKeyError"] = "hKey"
    /\ lookup.handler = "hBpBad"

\* ------------------------------------------------- the propagation policy
\* C11: whenever handle_exception has been called for a request, what it
\* did follows the configuration as it is during that request, not as it was
\* at construction or during an earlier request: with PROPAGATE_EXCEPTIONS
\* set, that value decides, otherwise TESTING or DEBUG; when the policy is on
\* the exception is raised again and there is no response, when it is off
\* the response is the 500 response and nothing is raised again.
C11_PolicyReadPerFailure ==
    \A w \in Workers :
        pc[w] \in {"respond", "finally"} =>
            \A g \in Positions(events[w], "got_request_exception") :
                LET evs == events[w]
                    policy == IF config.PROPAGATE_EXCEPTIONS # None
                              THEN config.PROPAGATE_EXCEPTIONS = "True"
                              ELSE config.TESTING \/ config.DEBUG
                IN IF policy
                   THEN /\ Len(evs) > g
                        /\ evs[g + 1] = Ev("reraise", "", evs[g].x, NoneVal)
                        /\ response[w] = NoneVal /\ exc[w] = evs[g].x
                        /\ Positions(evs, "respond") = {}
                   ELSE /\ Positions(evs, "reraise") \cap (g + 1)..Len(evs) = {}
                        /\ response[w] = ExcVal("InternalServerError")
                        /\ exc[w] = NoExc

\* Two requests failed in the same way, one before and one after the
\* configuration was changed: one was answered with the 500 response and for
\* the other the exception was raised again.
C11_Witness ==
    \E v, w \in Workers :
        /\ pc[v] = "done" /\ pc[w] = "done"
        /\ \E g \in Positions(events[v], "got_request_exception") :
             /\ events[v][g].x = Exc("AppError", "view")
             /\ Positions(events[v], "respond") # {}
             /\ response[v] = ExcVal("InternalServerError")
        /\ \E g \in Positions(events[w], "got_request_exception") :
             /\ events[w][g].x = Exc("AppError", "view")
             /\ events[w][g + 1].e = "reraise"
             /\ Positions(events[w], "respond") = {}

\* --------------------------------------------------------- finalize_request
\* The raises of make_response and of the after_request functions inside
\* the call of finalize_request entered at position f of a trace.
FinalizingFailures(evs, f) ==
    {i \in (f + 1)..Len(evs) :
        /\ evs[i].e = "raised"
        /\ evs[i].a \in {"make_response"} \cup AllFuncs(app.after_request_funcs)
        /\ \A j \in (f + 1)..i : evs[j].e # "finalize_request"}

\* A failure at position i of worker w's trace went on to the caller of
\* finalize_request, the except clause of wsgi_app.
PropagatedToCaller(w, i) ==
    IF Len(events[w]) = i
    THEN pc[w] = "except" /\ exc[w] = events[w][i].x
    ELSE events[w][i + 1] = Ev("got_request_exception", "", events[w][i].x, NoneVal)

\* C12, as stated: when finalize_request runs for the result of the 500
\* handler, a failure of make_response or of an after_request function is
\* logged and swallowed and a response is returned; when it runs for the
\* result of the dispatch the failure is raised to the caller.
C12_FinalizingFailureSwallowed ==
    \A w \in Workers :
        \A f \in Positions(events[w], "finalize_request") :
            \A i \in FinalizingFailures(events[w], f) :
                IF events[w][f].a = "True"
                THEN /\ Len(events[w]) > i
                     /\ events[w][i + 1] =
                          Ev("logger.exception", "", events[w][i].x, NoneVal)
                     /\ response[w].kind = "response"
                ELSE PropagatedToCaller(w, i)

\* C12, amended: when finalize_request runs for the result of the 500
\* handler, a failure of an after_request function is logged and swallowed
\* and the response make_response built is returned and handed to the
\* gateway, but a failure of make_response is raised out of
\* handle_exception, not logged by finalize_request, and there is no
\* response; when finalize_request runs for the result of the dispatch,
\* either failure is raised to the caller.
C12_AfterRequestFailureSwallowed ==
    \A w \in Workers :
        \A f \in Positions(events[w], "finalize_request") :
            \A i \in FinalizingFailures(events[w], f) :
                LET evs == events[w]
                IN IF evs[f].a = "False" THEN PropagatedToCaller(w, i)
                   ELSE IF evs[i].a = "make_response"
                   THEN /\ i = f + 1
                        /\ response[w] = NoneVal /\ exc[w] = evs[i].x
                        /\ pc[w] \in {"finally", "done"}
                        /\ Positions(evs, "respond") = {}
                        /\ \A l \in Positions(evs, "logger.exception") :
                             evs[l].x # evs[i].x
                   ELSE /\ Len(evs) > i
                        /\ evs[i + 1] = Ev("logger.exception", "", evs[i].x, NoneVal)
                        /\ MakeResponse(evs[f].v).ok
                        /\ response[w] = MakeResponse(evs[f].v).rv
                        /\ exc[w] = NoExc
                        /\ pc[w] = "respond" \/ Positions(evs, "respond") # {}

\* An after_request function raised while the result of the 500 handler was
\* finalized; the failure was logged and the response went to the gateway.
C12_Witness ==
    \E w \in Workers :
        \E f \in Positions(events[w], "finalize_request") :
            /\ events[w][f].a = "True"
            /\ \E i \in FinalizingFailures(events[w], f) :
                  /\ events[w][i].a \in AllFuncs(app.after_request_funcs)
                  /\ events[w][i + 1].e = "logger.exception"
            /\ \E r \in Positions(events[w], "respond") :
                  events[w][r].v = Response("handled", "200", DefaultReason, <<>>)

\* ------------------------------------------------- failures during teardown
\* The raises of teardown callbacks in a trace.
TeardownFailures(evs) ==
    {i \in Positions(evs, "raised") : evs[i].a \in TeardownFuncs}

\* C13, as stated: when a teardown callback raises while a request that
\* already failed is torn down, the exception is logged and not raised out of
\* wsgi_app, every teardown callback of the request still runs, and both
\* contexts are popped.
C13_TeardownFailureSwallowed ==
    \A w \in Workers :
        LET evs == events[w]
        IN /\ pc[w] = "done" /\ error[w] # NoExc
           /\ TeardownFailures(evs) # {}
           => /\ \A i \in TeardownFailures(evs) : exc[w] # evs[i].x
              /\ \E l \in Positions(evs, "logger.exception") :
                    \E i \in TeardownFailures(evs) : evs[l].x = evs[i].x
              /\ \A f \in SeqRange(TeardownRequestChain(app, request[w].blueprint))
                           \cup SeqRange(app.teardown_appcontext_funcs) :
                    Cardinality(CallPositions(evs, f)) = 1
              /\ request_ctx_stack[w] = <<>> /\ app_ctx_stack[w] = <<>>

\* ------------------------------------------------------- the context stacks
\* C14 as stated: in every state of a worker, when its request context stack
\* is not empty its application context stack is not empty either, and the
\* application context on top wraps the application of the request context
\* on top.
C14_RequestContextHasAppContext ==
    \A w \in Workers :
        request_ctx_stack[w] # <<>> =>
            /\ app_ctx_stack[w] # <<>>
            /\ Top(app_ctx_stack[w]).app = Top(request_ctx_stack[w]).app

\* Application code has pushed and popped no application context itself, and
\* no pop was rejected.
OnlyRequestContextsUsed ==
    \A k \in 1..Len(usage) :
        usage[k].stack # "app" /\ usage[k].x.cls # "AssertionError"

\* C14: as long as application code pushes and pops no application context
\* itself and no pop is rejected, a worker whose request context stack is not
\* empty has an application context on top of its application context stack
\* that wraps the application of the request context on top.
C14_PushedRequestContextHasAppContext ==
    OnlyRequestContextsUsed => C14_RequestContextHasAppContext

\* Two request contexts of one application were pushed, the second sharing
\* the application context of the first, and the second was popped again.
C14_Witness ==
    /\ OnlyRequestContextsUsed
    /\ \E k \in 1..Len(usage) - 2 :
         /\ usage[k].op = "push" /\ usage[k + 1].op = "push"
         /\ usage[k].a = usage[k + 1].a
         /\ usage[k].app_depth = usage[k + 1].app_depth
         /\ usage[k + 2].op = "pop" /\ usage[k + 2].ctx = usage[k + 1].ctx
    /\ Len(request_ctx_stack[MainWorker]) = 1
    /\ Len(app_ctx_stack[MainWorker]) = 1

\* ------------------------------------------- pushes and pops of contexts
\* The state of both stacks before operation k of the script.
DepthsBefore(k) ==
    IF k = 1 THEN <<0, 0>> ELSE <<usage[k - 1].request_depth, usage[k - 1].app_depth>>

DepthsAfter(k) == <<usage[k].request_depth, usage[k].app_depth>>

\* The contexts the operations k..j of the script pushed and have not popped,
\* in the order of their pushes, when each pop among them is of the context
\* pushed last and not popped yet; <<"unmatched">> when one is not.
RECURSIVE OpenAfter(_, _)
OpenAfter(k, j) ==
    IF j < k THEN <<>>
    ELSE LET before == OpenAfter(k, j - 1)
             u == usage[j]
         IN IF before = <<"unmatched">> \/ u.op = "read" THEN before
            ELSE IF u.op = "push" THEN Append(before, <<u.stack, u.ctx>>)
            ELSE IF before # <<>> /\ before[Len(before)] = <<u.stack, u.ctx>>
            THEN SubSeq(before, 1, Len(before) - 1)
            ELSE <<"unmatched">>

\* Operations k..j push contexts and pop each of them again, last in first
\* out.
LifoMatched(k, j) ==
    /\ OpenAfter(k, j) = <<>>
    /\ \E i \in k..j : usage[i].op = "push"

\* C15: after a sequence of pushes and pops on the context stacks in which
\* each push is matched by a pop in last-in-first-out order both stacks are
\* as deep as they were before it, and no pop of it is rejected; a pop of a
\* context that is not on top of its stack raises an AssertionError.
C15_MatchedPushPopRestoresDepth ==
    /\ \A k \in 1..Len(usage) : \A j \in k..Len(usage) :
          LifoMatched(k, j) =>
              /\ DepthsAfter(j) = DepthsBefore(k)
              /\ \A i \in k..j : usage[i].x.cls # "AssertionError"
    /\ \A k \in 1..Len(usage) :
          usage[k].op = "pop" /\ usage[k].ctx # usage[k].top =>
              usage[k].x.cls = "AssertionError"

\* A context was pushed and popped on top of two others, which left the
\* stacks as deep as they were, and then the lower of the two was popped,
\* which was rejected.
C15_Witness ==
    /\ Len(usage) = 5
    /\ usage[1].op = "push" /\ usage[2].op = "push"
    /\ usage[2].ctx # usage[1].ctx
    /\ LifoMatched(3, 4)
    /\ DepthsAfter(4) = DepthsAfter(2)
    /\ usage[5].op = "pop" /\ usage[5].ctx = usage[1].ctx
    /\ usage[5].stack = usage[2].stack
    /\ usage[5].x.cls = "AssertionError"

\* ------------------------------------ the count of an application context
\* Operations k..k+3 of the script push an application context for one
\* application twice, none for it being current before, and then pop the top
\* of the application stack twice.
PushedTwicePoppedTwice(k) ==
    /\ k + 3 <= Len(usage)
    /\ \A i \in k..(k + 3) : usage[i].stack = "app"
    /\ usage[k].op = "push" /\ usage[k + 1].op = "push"
    /\ usage[k + 1].a = usage[k].a
    /\ usage[k].app_depth = DepthsBefore(k)[2] + 1
    /\ usage[k + 2].op = "pop" /\ usage[k + 2].ctx = usage[k + 2].top
    /\ usage[k + 3].op = "pop" /\ usage[k + 3].ctx = usage[k + 3].top

ProxyIsRead ==
    /\ Len(usage') = Len(usage) + 1
    /\ usage'[Len(usage')].op = "read"

\* The read of the step raised a RuntimeError with message msg.
ReadRaised(msg) ==
    LET u == usage'[Len(usage')]
    IN u.x.cls = "RuntimeError" /\ u.msg = msg /\ u.value = <<>>

\* C17: a read of current_app or g while the application context stack is
\* empty raises a RuntimeError whose message names the application context,
\* a read of request or session while the request context stack is empty
\* raises one whose message names the request context, the two messages
\* differ, and the read leaves both stacks as they were.
C17_ProxyOutsideContextRaises ==
    [][ProxyIsRead =>
         LET name == usage'[Len(usage')].a
         IN /\ name \in {"current_app", "g"} /\ app_ctx_stack[MainWorker] = <<>>
                 => ReadRaised(AppCtxErrMsg)
            /\ name \in {"request", "session"} /\ request_ctx_stack[MainWorker] = <<>>
                 => ReadRaised(RequestCtxErrMsg)
            /\ AppCtxErrMsg # RequestCtxErrMsg
            /\ UNCHANGED stacks]_vars

\* With an application context pushed and no request context, session was
\* read, which raised the error of the request context, and both stacks are
\* as they were.
C17_Witness ==
    /\ Len(usage) = 2
    /\ usage[1].op = "push" /\ usage[1].stack = "app"
    /\ usage[2].op = "read" /\ usage[2].a = "session"
    /\ usage[2].x.cls = "RuntimeError" /\ usage[2].msg = RequestCtxErrMsg
    /\ request_ctx_stack[MainWorker] = <<>>
    /\ Len(app_ctx_stack[MainWorker]) = 1

\* ------------------------------------------------ the shape of a return value
\* The calls of make_response in a trace: the value each was given and what
\* came of it.  finalize_request hands its argument to make_response, whose
\* exception is the next event, and whose response goes through the
\* after-request functions, which give it back, to request_finished.
Made(evs) ==
    {[given |-> evs[f].v,
      result |-> IF f < Len(evs) /\ evs[f + 1].e = "raised"
                    /\ evs[f + 1].a = "make_response"
                 THEN Raised(evs[f + 1].x)
                 ELSE Returned(evs[CHOOSE r \in Positions(evs, "request_finished") :
                                     r > f /\ \A q \in Positions(evs, "request_finished") :
                                                 q > f => r <= q].v)] :
     f \in {g \in Positions(evs, "finalize_request") :
              \/ g < Len(evs) /\ evs[g + 1].e = "raised" /\ evs[g + 1].a = "make_response"
              \/ \E r \in Positions(evs, "request_finished") :
                    r > g /\ \A j \in (g + 1)..r : evs[j].e # "finalize_request"}}

AllMade == UNION {Made(events[w]) : w \in Workers}

RejectedWithTypeError(m) == ~m.result.ok /\ m.result.exc.cls = "TypeError"

\* Bodies a response can be made of, and for each the status code and the
\* headers of the response it makes when nothing else is given.
IsBody(b) == b.kind \in {"str", "response", "exc"}
OwnCode(b) == IF b.kind = "str" THEN "200" ELSE b.status
OwnHeaders(b) == IF b.kind = "response" THEN b.headers ELSE <<>>

\* The call m treated its value as this body, this status and these headers,
\* None standing for a status or headers that are not given.
TakenAs(m, body, status, headers) ==
    IF ~IsBody(body) THEN RejectedWithTypeError(m)
    ELSE /\ m.result.ok
         /\ m.result.rv.kind = "response"
         /\ m.result.rv.body = body.body
         /\ m.result.rv.status = (IF status.kind = "none" THEN OwnCode(body)
                                  ELSE status.status)
         /\ m.result.rv.headers =
               OwnHeaders(body) \o (IF headers.kind = "none" THEN <<>> ELSE headers.headers)

\* C18: make_response takes a 3-tuple as (body, status, headers), a 2-tuple
\* as (body, headers) when its second element is header-like and as (body,
\* status) otherwise, rejects a tuple of any other length with a TypeError,
\* and makes of a bare string a response with status 200 and that body.
C18_ReturnValueShapes ==
    \A m \in AllMade :
        LET v == m.given
            n == Len(v.items)
        IN /\ v.kind = "tuple" /\ n = 3 =>
                TakenAs(m, v.items[1], v.items[2], v.items[3])
           /\ v.kind = "tuple" /\ n = 2 /\ v.items[2].kind = "dict" =>
                TakenAs(m, v.items[1], NoneVal, v.items[2])
           /\ v.kind = "tuple" /\ n = 2 /\ v.items[2].kind # "dict" =>
                TakenAs(m, v.items[1], v.items[2], NoneVal)
           /\ v.kind = "tuple" /\ n \notin {2, 3} => RejectedWithTypeError(m)
           /\ v.kind = "str" =>
                m.result = Returned(Response(v.body, "200", DefaultReason, <<>>))

\* A view has returned a string with a dict, which was taken as headers: the
\* response has the string as body, status 200 and the headers of the dict.
C18_Witness ==
    /\ \E m \in AllMade :
          /\ m.given = TupleVal(<<StrVal("ok"), DictVal(<<<<"X", "1">>>>)>>)
          /\ m.result = Returned(Response("ok", "200", DefaultReason, <<<<"X", "1">>>>))
          /\ pc[MainWorker] = "done"

\* ------------------------------------------------------------ a None body
\* The value has None for its body: it is None, or a 2-tuple or a 3-tuple
\* whose first element is None.
HasNoneBody(v) ==
    \/ v.kind = "none"
    \/ v.kind = "tuple" /\ Len(v.items) \in {2, 3} /\ v.items[1].kind = "none"

BodyOf(v) == IF v.kind = "tuple" /\ v.items # <<>> THEN v.items[1] ELSE v
StatusOf(v) ==
    IF v.kind = "tuple" /\ Len(v.items) = 3 THEN v.items[2]
    ELSE IF v.kind = "tuple" /\ Len(v.items) = 2 /\ v.items[2].kind # "dict"
    THEN v.items[2]
    ELSE NoneVal

\* C20: of a body with a textual status make_response makes a response whose
\* status line is that text, code and reason; with a numeric status the code
\* of the response is that number, its reason is not the caller's but the one
\* the response class has for the code, and body and headers are those of
\* the body; and a response object returned with no status keeps its code
\* and its reason.
C20_StatusSupplied ==
    \A m \in AllMade :
        LET v == m.given
            b == BodyOf(v)
            st == StatusOf(v)
        IN (v.kind = "tuple" => Len(v.items) \in {2, 3}) /\ IsBody(b) =>
              /\ m.result.ok
              /\ st.kind = "str" =>
                    /\ m.result.rv.status = st.status
                    /\ m.result.rv.sline = st.sline
              /\ st.kind = "int" =>
                    /\ m.result.rv.status = st.status
                    /\ m.result.rv.sline = DefaultReason
                    /\ m.result.rv.body = b.body
              /\ st.kind = "none" /\ b.kind = "response" =>
                    /\ m.result.rv.status = b.status
                    /\ m.result.rv.sline = b.sline

\* A view has returned a response object with a textual status: the response
\* has the status line of the text in place of its own, and its body.
C20_Witness ==
    /\ \E m \in AllMade :
          /\ BodyOf(m.given) = Response("page", "201", "Created", <<<<"Server", "x">>>>)
          /\ StatusOf(m.given) = StatusText("404", "Gone Fishing")
          /\ m.result.ok
          /\ m.result.rv.status = "404" /\ m.result.rv.sline = "Gone Fishing"
          /\ m.result.rv.body = "page"
    /\ pc[MainWorker] = "done"

\* ----------------------------------------------------- the headers supplied
\* The headers the value holds, None when it holds none.
HeadersOf(v) ==
    IF v.kind = "tuple" /\ Len(v.items) = 3 THEN v.items[3]
    ELSE IF v.kind = "tuple" /\ Len(v.items) = 2 /\ v.items[2].kind = "dict"
    THEN v.items[2]
    ELSE NoneVal

\* C21: when headers come with the return value, every header the body's
\* response had is a header of the response make_response returns, each
\* supplied header is one as well, the supplied ones follow the others, and
\* there are no further headers.
C21_HeadersAppended ==
    \A m \in AllMade :
        LET v == m.given
            b == BodyOf(v)
            h == HeadersOf(v)
        IN (v.kind = "tuple" => Len(v.items) \in {2, 3}) /\ IsBody(b)
           /\ h.kind = "dict" =>
              /\ m.result.ok
              /\ SeqRange(OwnHeaders(b)) \subseteq SeqRange(m.result.rv.headers)
              /\ SeqRange(h.headers) \subseteq SeqRange(m.result.rv.headers)
              /\ m.result.rv.headers = OwnHeaders(b) \o h.headers

\* A view has returned a response object that has a Server header together
\* with another Server header: the response has both, its own first.
C21_Witness ==
    /\ \E m \in AllMade :
          /\ BodyOf(m.given) = Response("page", "201", "Created", <<<<"Server", "x">>>>)
          /\ HeadersOf(m.given) = DictVal(<<<<"Server", "y">>>>)
          /\ m.result.ok
          /\ m.result.rv.headers = <<<<"Server", "x">>, <<"Server", "y">>>>
    /\ pc[MainWorker] = "done"

\* ------------------------------------------- before-request short circuit
BeforeRequestFuncs == AllFuncs(app.before_request_funcs)

\* The calls of before-request functions in a trace that returned a value
\* other than None.
EarlyReturns(evs) ==
    {i \in 1..Len(evs) :
        evs[i].e = "call" /\ evs[i].a \in BeforeRequestFuncs /\ evs[i].v # NoneVal}

\* Events of dispatch_request: the routing outcome raised, the automatic
\* OPTIONS response, the view called.
DispatchPositions(evs) ==
    {i \in 1..Len(evs) :
        \/ evs[i].e \in {"view", "options"}
        \/ evs[i].e = "raised" /\ evs[i].a = "routing"
        \/ evs[i] = Stage("Dispatched")}

\* C22: after a before-request function has returned a value that is not
\* None no before-request function is called any more, dispatch_request is
\* not entered (the routing outcome is not looked at and no view is called),
\* and the value is what finalize_request is next given.
C22_BeforeRequestShortCircuits ==
    \A w \in Workers : \A i \in EarlyReturns(events[w]) :
        LET evs == events[w]
        IN /\ \A j \in (i + 1)..Len(evs) :
                 ~(evs[j].e = "call" /\ evs[j].a \in BeforeRequestFuncs)
           /\ DispatchPositions(evs) = {}
           /\ \A j \in Positions(evs, "finalize_request") :
                 (\A k \in Positions(evs, "finalize_request") : j <= k) =>
                     evs[j].v = evs[i].v /\ evs[j].a = "False"
           /\ pc[w] \in {"respond", "finally", "done"} =>
                 Positions(evs, "finalize_request") # {}

\* The first before-request function of the application returned a value
\* for a request of the blueprint: the request is over and neither the other
\* functions nor the view were called.
C22_Witness ==
    /\ pc[MainWorker] = "done"
    /\ request[MainWorker].blueprint = "bp"
    /\ \E i \in EarlyReturns(events[MainWorker]) :
          /\ events[MainWorker][i].a = "b1"
          /\ events[MainWorker][i].v = EarlyValue
    /\ \E r \in Positions(events[MainWorker], "respond") :
          events[MainWorker][r].v.body = "early"

\* ------------------------------------------ an empty before-request result
\* The calls of before-request functions in a trace that returned.
BeforeReturns(evs) ==
    {i \in 1..Len(evs) :
        /\ evs[i].e = "call" /\ evs[i].a \in BeforeRequestFuncs
        /\ ~(i < Len(evs) /\ evs[i + 1].e = "raised" /\ evs[i + 1].a = evs[i].a)}

\* The call at i ended preprocessing and its result went to finalize_request
\* with nothing called in between.
ShortCircuited(w, i) ==
    IF i = Len(events[w]) THEN pc[w] = "finalize"
    ELSE /\ events[w][i + 1] = Stage("Finalized")
         /\ events[w][i + 2].e = "finalize_request"
         /\ events[w][i + 2].v = events[w][i].v

\* A result that is neither None nor empty.
NonEmpty(v) == v # NoneVal /\ v # EmptyValue

\* C23, as stated: a before-request function short-circuits dispatch exactly
\* when its result is not empty; after an empty result, an empty string for
\* one, the remaining functions and the view run.
C23_ShortCircuitsWhenNonEmpty ==
    \A w \in Workers : \A i \in BeforeReturns(events[w]) :
        ShortCircuited(w, i) <=> NonEmpty(events[w][i].v)

\* C23, amended: a before-request function short-circuits dispatch exactly
\* when its result is not None; an empty string short-circuits as any other
\* value does and is finalized in place of the view's return value, and only
\* after None the remaining functions and the view run.
C23_ShortCircuitsWhenNotNone ==
    \A w \in Workers : \A i \in BeforeReturns(events[w]) :
        ShortCircuited(w, i) <=> events[w][i].v # NoneVal

\* A before-request function returned an empty string after another had
\* returned None: the request was answered with the empty body and the view
\* was not called.
C23_Witness ==
    /\ pc[MainWorker] = "done"
    /\ \E i \in BeforeReturns(events[MainWorker]) :
          /\ events[MainWorker][i].a = "b2"
          /\ events[MainWorker][i].v = EmptyValue
          /\ ShortCircuited(MainWorker, i)
          /\ events[MainWorker][i - 1] = Call("b1")
    /\ Positions(events[MainWorker], "view") = {}
    /\ \E r \in Positions(events[MainWorker], "respond") :
          /\ events[MainWorker][r].v.kind = "response"
          /\ events[MainWorker][r].v.body = "" /\ events[MainWorker][r].v.status = "200"

\* ------------------------------------------------ the order of preprocessing
\* The functions of F called in a trace, in the order of their calls.
CalledOf(evs, F) ==
    LET calls == SelectSeq(evs, LAMBDA ev : ev.e = "call" /\ ev.a \in F)
    IN [i \in 1..Len(calls) |-> calls[i].a]

IsPrefix(s, t) == Len(s) <= Len(t) /\ \A i \in 1..Len(s) : s[i] = t[i]

\* The functions of a callback dict that are for a request of blueprint bp:
\* those of the application, then those of the blueprint, each group as
\* registered.
GlobalThenBlueprint(funcs, bp) ==
    funcs[None] \o (IF bp = None THEN <<>> ELSE funcs[bp])

\* C24: the functions preprocessing calls are, in this order, the URL value
\* preprocessors of the application, those of the request's blueprint, the
\* before-request functions of the application and those of the blueprint,
\* each group in registration order, up to the one that raised or returned
\* a value; no function of another blueprint is called, and when dispatch is
\* reached every one of them has been called.
C24_PreprocessingOrder ==
    \A w \in Workers :
        LET bp == request[w].blueprint
            expected == GlobalThenBlueprint(app.url_value_preprocessors, bp)
                        \o GlobalThenBlueprint(app.before_request_funcs, bp)
            called == CalledOf(events[w], AllFuncs(app.url_value_preprocessors)
                                          \cup BeforeRequestFuncs)
        IN events[w] # <<>> =>
              /\ IsPrefix(called, expected)
              /\ StagePositions(events[w], "Dispatched") # {} => called = expected

\* A request of the blueprint went through preprocessing to its view: the
\* two URL value preprocessors of the application, the one of the blueprint,
\* the two before-request functions of the application and the one of the
\* blueprint were called in this order, and none of the blueprint "admin".
C24_Witness ==
    /\ pc[MainWorker] = "done"
    /\ request[MainWorker].blueprint = "bp"
    /\ Positions(events[MainWorker], "view") # {}
    /\ CalledOf(events[MainWorker],
                AllFuncs(app.url_value_preprocessors) \cup BeforeRequestFuncs)
         = <<"u1", "u2", "ub1", "b1", "b2", "bb1">>

\* ------------------------------------------- the after-request functions
AfterRequestFuncs == AllFuncs(app.after_request_funcs)

\* The events of the run of finalize_request entered at f: those up to the
\* next entry, or to the end of the trace.
FinalizeRun(evs, f) ==
    LET later == {g \in Positions(evs, "finalize_request") : g > f}
        last == IF later = {} THEN Len(evs)
                ELSE (CHOOSE g \in later : \A h \in later : g <= h) - 1
    IN SubSeq(evs, f + 1, last)

\* The calls of after-request functions among events, in order.
AfterCalls(evs) ==
    SelectSeq(evs, LAMBDA ev : ev.e = "call" /\ ev.a \in AfterRequestFuncs)

\* The functions of a callback dict process_response is to call for a
\* request of blueprint bp: those of the blueprint, last registered first,
\* then those of the application, last registered first.
BlueprintThenGlobalReversed(funcs, bp) ==
    (IF bp = None THEN <<>> ELSE Reversed(funcs[bp])) \o Reversed(funcs[None])

\* C25: in each run of finalize_request the after-request functions called
\* are those of the request's blueprint and then those of the application,
\* each scope last registered first, up to one that raises; the first is
\* called with the response make_response made, each later one with the
\* response the one before it gave back, and what the last one gave back is
\* the response the run ends with.
C25_AfterRequestOrder ==
    \A w \in Workers : \A f \in Positions(events[w], "finalize_request") :
        LET run == FinalizeRun(events[w], f)
            calls == AfterCalls(run)
            expected == BlueprintThenGlobalReversed(app.after_request_funcs,
                                                    request[w].blueprint)
            finished == SelectSeq(run, LAMBDA ev : ev.e = "request_finished")
        IN /\ IsPrefix([k \in 1..Len(calls) |-> calls[k].a], expected)
           /\ calls # <<>> =>
                 /\ calls[1].v.kind = "response"
                 /\ \A h \in SeqRange(calls[1].v.headers) : h[1] # "After"
           /\ \A k \in 2..Len(calls) :
                 calls[k].v = AfterRequestResult(app, calls[k - 1].a, calls[k - 1].v)
           /\ finished # <<>> =>
                 /\ Len(calls) = Len(expected)
                 /\ finished[1].v =
                       AfterRequestResult(app, calls[Len(calls)].a, calls[Len(calls)].v)
                 /\ pc[w] = "respond" /\ Positions(events[w], "got_request_exception") = {}
                       => response[w] = finished[1].v

\* A request of the blueprint was answered after all four after-request
\* functions had been called, those of the blueprint first: the response
\* sent has their marks in the order of the calls.
C25_Witness ==
    /\ pc[MainWorker] = "done"
    /\ request[MainWorker].blueprint = "bp"
    /\ CalledOf(events[MainWorker], AfterRequestFuncs) = <<"ab2", "ab1", "a2", "a1">>
    /\ \E r \in Positions(events[MainWorker], "respond") :
          events[MainWorker][r].v.headers =
              <<<<"After", "ab2">>, <<"After", "ab1">>, <<"After", "a2">>, <<"After", "a1">>>>

\* ------------------------------------------------- the order of the teardown
\* The calls of the functions of F among events, in order.
CallsOf(evs, F) == SelectSeq(evs, LAMBDA ev : ev.e = "call" /\ ev.a \in F)

\* The calls are of these functions, each once, in this order, and each got
\* the value x.
CalledInOrderWith(calls, funcs, x) ==
    /\ Len(calls) = Len(funcs)
    /\ \A k \in 1..Len(calls) : calls[k].a = funcs[k] /\ calls[k].x = x

\* C26: when auto_pop pops the request context, the request teardown
\* functions of the application and those of the request's blueprint have
\* all been called before the pop, each scope last registered first and each
\* with the exception value auto_pop was given; when the request context owns
\* its application context the application teardown functions are all called
\* after that pop, last registered first and with the same value, and when
\* it does not own it none of them is called.
C26_TeardownOrder ==
    \A w \in Workers : \A p \in Positions(events[w], "pop_request") :
        LET evs == events[w]
            x == evs[CHOOSE i \in Positions(evs, "auto_pop") : TRUE].x
            bp == request[w].blueprint
            before == SubSeq(evs, 1, p - 1)
            after == SubSeq(evs, p + 1, Len(evs))
            owned == Positions(evs, "pop_app") # {}
        IN /\ CalledInOrderWith(
                 CallsOf(before, SeqRange(app.teardown_request_funcs[None])),
                 Reversed(app.teardown_request_funcs[None]), x)
           /\ bp # None =>
                 CalledInOrderWith(
                     CallsOf(before, SeqRange(app.teardown_request_funcs[bp])),
                     Reversed(app.teardown_request_funcs[bp]), x)
           /\ CallsOf(after, AllFuncs(app.teardown_request_funcs)) = <<>>
           /\ CallsOf(before, SeqRange(app.teardown_appcontext_funcs)) = <<>>
           /\ CalledInOrderWith(
                 CallsOf(after, SeqRange(app.teardown_appcontext_funcs)),
                 IF owned THEN Reversed(app.teardown_appcontext_funcs) ELSE <<>>, x)

\* ------------------------------------------------ routing failures at dispatch
\* The request of worker w is one whose redirect dispatch_request replaces by
\* the diagnostic of the debug helpers.
RedirectWouldLoseFormData(w) ==
    /\ config.DEBUG
    /\ request[w].routing = "RequestRedirect"
    /\ request[w].method \notin {"GET", "HEAD", "OPTIONS"}

\* What dispatch_request did for the request of worker w, entered at d of
\* its trace: nothing is raised for a matched request; for a failed routing
\* the next thing that happens is a raise, of the diagnostic exactly when
\* RedirectWouldLoseFormData and of the captured failure itself otherwise,
\* and neither a view nor the automatic OPTIONS response is reached.
RoutingFailureRaisedAt(w, d) ==
    LET evs == events[w]
        req == request[w]
    IN IF req.routing = None
       THEN \A i \in Positions(evs, "raised") : evs[i].a # "routing"
       ELSE /\ Len(evs) > d
            /\ evs[d + 1].e = "raised" /\ evs[d + 1].a = "routing"
            /\ evs[d + 1].x.cls = "FormDataRoutingRedirect"
                  <=> RedirectWouldLoseFormData(w)
            /\ evs[d + 1].x.cls # "FormDataRoutingRedirect"
                  => evs[d + 1].x = Exc(req.routing, "routing")
            /\ Positions(evs, "view") = {} /\ Positions(evs, "options") = {}

\* The redirect raised for the request of worker w is what finalize_request
\* is given to make the response of, and a response handed to the gateway
\* without an error on the way is the redirect.
RedirectAnswered(w) ==
    LET evs == events[w]
    IN /\ \A f \in Positions(evs, "finalize_request") :
             (\A g \in Positions(evs, "finalize_request") : f <= g)
                => evs[f].v = ExcVal("RequestRedirect")
       /\ pc[w] \in {"respond", "finally", "done"} =>
             Positions(evs, "finalize_request") # {}
       /\ \A r \in Positions(evs, "respond") :
             error[w] = NoExc => evs[r].v.status = "308"

C27_DiagnosticRaised ==
    \E w \in Workers :
        /\ pc[w] = "done"
        /\ RedirectWouldLoseFormData(w)
        /\ \E i \in Positions(events[w], "raised") :
              events[w][i] = RaisedBy("routing", Exc("FormDataRoutingRedirect", "debughelpers"))

\* A GET whose routing suggested a redirect was answered with the redirect in
\* non-debug mode.
C27_RedirectResponse ==
    \E w \in Workers :
        /\ pc[w] = "done" /\ ~config.DEBUG
        /\ request[w].routing = "RequestRedirect" /\ request[w].method = "GET"
        /\ \E i \in Positions(events[w], "raised") :
              events[w][i] = RaisedBy("routing", Exc("RequestRedirect", "routing"))
        /\ \E r \in Positions(events[w], "respond") : events[w][r].v.status = "308"

\* ------------------------------------------------------ automatic OPTIONS
\* The answer make_default_options_response gives the request req.
OptionsAnswer(req) ==
    Response("", "200", DefaultReason, << <<"Allow", req.allowed_methods>> >>)

\* C28: when dispatch_request is entered for a request a rule matched, and
\* the rule has provide_automatic_options and the method is OPTIONS, the
\* result is an empty response whose Allow header lists the methods allowed
\* for the path, and no view is called; for any other method, and for a rule
\* without the flag, the view registered for the rule's endpoint is called
\* once, with the arguments taken from the path, and nothing is synthesized.
C28_AutomaticOptions ==
    \A w \in Workers : \A d \in StagePositions(events[w], "Dispatched") :
        LET evs == events[w]
            req == request[w]
        IN req.routing = None =>
            IF req.auto_options /\ req.method = "OPTIONS"
            THEN /\ Positions(evs, "view") = {} /\ Positions(evs, "view_args") = {}
                 /\ Positions(evs, "options") = {d + 1}
                 /\ evs[d + 1].v = OptionsAnswer(req)
                 /\ \A f \in Positions(evs, "finalize_request") :
                       (\A g \in Positions(evs, "finalize_request") : f <= g)
                          => evs[f].v = OptionsAnswer(req)
            ELSE /\ Positions(evs, "options") = {}
                 /\ Positions(evs, "view_args") = {d + 1}
                 /\ Positions(evs, "view") = {d + 2}
                 /\ evs[d + 1].a = app.view_functions[req.endpoint]
                 /\ evs[d + 1].v = DictVal(req.view_args)
                 /\ evs[d + 2].a = app.view_functions[req.endpoint]

\* An OPTIONS request for the rule of "show", which provides automatic
\* options, was answered with the methods allowed for its path, and
\* show_view was not called.
C28_Witness ==
    \E w \in Workers :
        /\ pc[w] = "done"
        /\ request[w].method = "OPTIONS" /\ request[w].auto_options
        /\ request[w].endpoint = "show"
        /\ Positions(events[w], "view") = {}
        /\ \E r \in Positions(events[w], "respond") :
              events[w][r].v = Response("", "200", DefaultReason,
                                        << <<"Allow", "GET, OPTIONS, PUT">> >>)

\* An OPTIONS request for a rule without automatic options, and a PUT for a
\* rule with them, were handled by the view of the endpoint.
C28_ViewCalled ==
    \E w \in Workers :
        /\ pc[w] = "done"
        /\ request[w].endpoint = "show"
        /\ \/ request[w].method = "OPTIONS" /\ ~request[w].auto_options
           \/ request[w].method = "PUT" /\ request[w].auto_options
        /\ \E i \in Positions(events[w], "view_args") :
              /\ events[w][i].a = "show_view"
              /\ events[w][i].v = DictVal(request[w].view_args)
              /\ events[w][i + 1] = Ev("view", "show_view", NoExc, StrVal("ok"))

\* ------------------------------------------------------ late registration
\* The setup method was called with arguments add_url_rule itself has no
\* objection to on the application a: methods that are no string, and no
\* other view registered for the endpoint.
Registrable(a, c) ==
    LET ep == IF c.endpoint = None THEN c.view_func ELSE c.endpoint
    IN /\ c.methods.kind # "str"
       /\ c.view_func # None /\ ep \in DOMAIN a.view_functions
             => a.view_functions[ep] = c.view_func

\* C29: a call of add_url_rule or of a route decorator made in debug mode
\* after _got_first_request was set raises the AssertionError of setupmethod
\* and leaves the URL map and the view registry as they were; a call made
\* before that, or at any time in non-debug mode, never raises that error,
\* and one with arguments add_url_rule has no objection to raises nothing,
\* adds its rule at the end of the URL map and registers its view for the
\* endpoint.
C29_LateRegistrationRejected ==
    [][ (usage' # usage \/ app' # app) =>
          LET u == usage'[1]
              c == u.call
              ep == IF c.endpoint = None THEN c.view_func ELSE c.endpoint
          IN IF config.DEBUG /\ got_first_request
             THEN /\ u.x = Exc("AssertionError", "setupmethod")
                  /\ app'.url_map = app.url_map
                  /\ app'.view_functions = app.view_functions
             ELSE /\ u.x # Exc("AssertionError", "setupmethod")
                  /\ Registrable(app, c) =>
                       /\ u.x = NoExc
                       /\ Len(app'.url_map) = Len(app.url_map) + 1
                       /\ SubSeq(app'.url_map, 1, Len(app.url_map)) = app.url_map
                       /\ app'.url_map[Len(app'.url_map)].rule = c.rule
                       /\ app'.url_map[Len(app'.url_map)].endpoint = ep
                       /\ c.view_func # None =>
                             /\ ep \in DOMAIN app'.view_functions
                             /\ app'.view_functions[ep] = c.view_func
                       /\ \A e \in DOMAIN app.view_functions \ {ep} :
                             /\ e \in DOMAIN app'.view_functions
                             /\ app'.view_functions[e] = app.view_functions[e]
      ]_vars

\* In debug mode, after the first request, a new rule with a new view was
\* refused: the URL map has the one rule the application was made with and
\* the view is not registered.
C29_Witness ==
    /\ usage # <<>>
    /\ usage[1].debug /\ usage[1].got /\ config.DEBUG /\ got_first_request
    /\ usage[1].call.view_func = "new_view" /\ usage[1].call.endpoint = None
    /\ usage[1].call.methods = Methods("none", {})
    /\ usage[1].x = Exc("AssertionError", "setupmethod")
    /\ Len(app.url_map) = 1
    /\ "new_view" \notin DOMAIN app.view_functions

\* In non-debug mode, after the first request, the same call was accepted.
C29_AcceptedInProduction ==
    /\ usage # <<>>
    /\ ~usage[1].debug /\ usage[1].got
    /\ usage[1].call.view_func = "new_view" /\ usage[1].call.endpoint = None
    /\ usage[1].x = NoExc
    /\ "new_view" \in DOMAIN app.view_functions
    /\ app.url_map[Len(app.url_map)].endpoint = "new_view"

\* In debug mode a route decorator was accepted while the first request was
\* calling the before-first-request functions.
C29_AcceptedBeforeBarrier ==
    /\ usage # <<>>
    /\ usage[1].debug /\ ~usage[1].got /\ usage[1].op = "route"
    /\ usage[1].x = NoExc
    /\ pc[MainWorker] \notin {"idle", "done"}
    /\ "new_view" \in DOMAIN app.view_functions

\* ------------------------------------------------ the generic 500 handler
\* The calls of error handlers handle_exception made in a trace it was
\* entered in at g.
HandlerCallsAfter(evs, g) == {h \in Positions(evs, "handler") : h > g}

\* C30: the handler handle_exception calls is the one the registry holds
\* for InternalServerError for the request's blueprint, whatever the class of
\* the exception that brought the request there, and it is called once, with
\* that exception, the one the request raised, as its argument; when
\* exceptions are propagated or there is no such handler no handler is
\* called.
C30_Generic500Handler ==
    \A w \in Workers : \A g \in Positions(events[w], "got_request_exception") :
        LET evs == events[w]
            e == evs[g].x
            chosen == FindErrorHandler(error_handler_spec, request[w].blueprint,
                                       "InternalServerError")
            raises == {i \in RaisePositions(evs) : i < g}
        IN /\ raises # {}
           /\ evs[CHOOSE i \in raises : \A j \in raises : j <= i].x = e
           /\ \A h \in HandlerCallsAfter(evs, g) :
                 evs[h].a = chosen /\ evs[h].x = e
           /\ IF PropagateExceptions(config) \/ chosen = NoHandler
              THEN HandlerCallsAfter(evs, g) = {}
              ELSE Cardinality(HandlerCallsAfter(evs, g)) = 1

\* A request of the blueprint whose view returned None ended in the 500
\* handler of the blueprint, called with the TypeError of make_response.
C30_Witness ==
    \E w \in Workers :
        /\ pc[w] = "done" /\ request[w].blueprint = "bp"
        /\ \E g \in Positions(events[w], "got_request_exception") :
              /\ events[w][g].x = Exc("TypeError", "make_response")
              /\ \E h \in HandlerCallsAfter(events[w], g) :
                    /\ events[w][h].a = "hBp500"
                    /\ events[w][h].x = Exc("TypeError", "make_response")

\* A request of the blueprint whose AppError the handler of the blueprint
\* for that class failed on ended in the same 500 handler, called with the
\* handler's exception; a trapped MethodNotAllowed did as well.
C30_OtherClasses ==
    \E w \in Workers :
        /\ pc[w] = "done" /\ request[w].blueprint = "bp"
        /\ \E g \in Positions(events[w], "got_request_exception") :
              /\ events[w][g].x \in {Exc("AppError", "hBpApp"),
                                     Exc("MethodNotAllowed", "routing")}
              /\ \E h \in HandlerCallsAfter(events[w], g) :
                    /\ events[w][h].a = "hBp500"
                    /\ events[w][h].x = events[w][g].x

\* ------------------------------------------------ handle_http_exception
\* The value handle_user_exception, entered at u of the trace of worker w,
\* gave back: what finalize_request is given next, or rv while it has not
\* been entered.  Only for a call that returned.
ValueReturnedAt(w, u) ==
    LET fin == {f \in Positions(events[w], "finalize_request") : f > u}
    IN IF fin = {} THEN rv[w]
       ELSE events[w][CHOOSE f \in fin : \A g \in fin : f <= g].v

\* The calls of error handlers between the entry of handle_user_exception at
\* u and what follows it (finalize_request or handle_exception).
HandlerCallsOf(evs, u) ==
    {h \in Positions(evs, "handler") : h > u /\
        \A i \in (u + 1)..h :
            evs[i].e \notin {"finalize_request", "got_request_exception"}}

\* C31: for an HTTP exception that is not trapped, which is what
\* handle_http_exception is called with: when its class has no code, no
\* handler is called, whatever the registry holds, and the exception itself
\* is the value returned; when the registry has no handler for it, the
\* same; otherwise the handler found is called once with the exception and
\* what it returns is the value returned.
C31_HttpExceptionHandled ==
    \A w \in Workers : \A u \in Positions(events[w], "handle_user_exception") :
        LET evs == events[w]
            e == evs[u].x
            found == FindErrorHandler(error_handler_spec, request[w].blueprint, e.cls)
        IN IsInstance(e.cls, "HTTPException") /\ ~TrapHttpException(config, e.cls) =>
            IF ClassCode(e.cls) = None \/ found = NoHandler
            THEN /\ HandlerCallsOf(evs, u) = {}
                 /\ ~(Len(evs) > u /\ evs[u + 1].e = "reraise")
                 /\ ValueReturnedAt(w, u) = ExcVal(e.cls)
            ELSE /\ HandlerCallsOf(evs, u) = {u + 1}
                 /\ evs[u + 1].a = found /\ evs[u + 1].x = e
                 /\ ~(Len(evs) > u + 1 /\ evs[u + 2].e = "raised")
                       => ValueReturnedAt(w, u) = evs[u + 1].v

\* An HTTP exception without a code was made the response although the
\* registry has a handler for its class.
C31_Witness ==
    \E w \in Workers : \E u \in Positions(events[w], "handle_user_exception") :
        /\ pc[w] = "done"
        /\ events[w][u].x = Exc("HTTPException", "view")
        /\ ~TrapHttpException(config, "HTTPException")
        /\ FindErrorHandler(error_handler_spec, request[w].blueprint,
                            "HTTPException") = "hHttp"
        /\ Positions(events[w], "handler") = {}
        /\ \E f \in Positions(events[w], "finalize_request") :
              events[w][f].v = ExcVal("HTTPException")

\* A MethodNotAllowed was handled by the handler registered for the class
\* HTTPException, and a NotFound was made the response where nothing is
\* registered.
C31_HandledAndUnhandled ==
    \E w \in Workers : \E u \in Positions(events[w], "handle_user_exception") :
        /\ pc[w] = "done"
        /\ \/ /\ events[w][u].x = Exc("MethodNotAllowed", "view")
              /\ events[w][u + 1] = Ev("handler", "hHttp", events[w][u].x, StrVal("handled"))
           \/ /\ events[w][u].x = Exc("NotFound", "view")
              /\ error_handler_spec = EmptyRegistry
              /\ \E r \in Positions(events[w], "respond") : events[w][r].v.status = "404"

\* -------------------------------------------------- trap_http_exception
\* Whether an HTTP exception of class cls is to be trapped under the
\* configuration of the application, case by case.
Trapped(cls) ==
    CASE config.TRAP_HTTP_EXCEPTIONS -> TRUE
      [] ~config.TRAP_HTTP_EXCEPTIONS /\ config.TRAP_BAD_REQUEST_ERRORS = None
           /\ config.DEBUG -> cls \in {"BadRequestKeyError"}
      [] ~config.TRAP_HTTP_EXCEPTIONS /\ config.TRAP_BAD_REQUEST_ERRORS = "True"
           -> cls \in {"BadRequest", "BadRequestKeyError"}
      [] OTHER -> FALSE

C32_NotTrapped ==
    \E w \in Workers : \E u \in Positions(events[w], "handle_user_exception") :
        /\ pc[w] = "done" /\ config.DEBUG /\ ~config.TRAP_HTTP_EXCEPTIONS
        /\ error_handler_spec = EmptyRegistry
        /\ \/ /\ config.TRAP_BAD_REQUEST_ERRORS = None
              /\ events[w][u].x = Exc("BadRequest", "view")
           \/ /\ config.TRAP_BAD_REQUEST_ERRORS = "False"
              /\ events[w][u].x = Exc("BadRequestKeyError", "view")
        /\ \E r \in Positions(events[w], "respond") : events[w][r].v.status = "400"

\* ------------------------------------------------ handle_user_exception
\* C33: for an exception that is no HTTP exception, raised by a
\* before-request function or by the view: when the registry has a handler
\* for it, handle_user_exception calls that handler with it and returns what
\* the handler returns; when it has none, the exception is re-raised, no
\* handler is called, and handle_exception is entered next with the same
\* exception.  An HTTP exception that is not trapped is never re-raised by
\* handle_user_exception, and what comes of it is what handle_http_exception
\* gives: the exception as the value where its class has no code or nothing
\* is registered for it, a call of the handler found otherwise.
C33_UserExceptionHandled ==
    \A w \in Workers : \A u \in Positions(events[w], "handle_user_exception") :
        LET evs == events[w]
            e == evs[u].x
            found == FindErrorHandler(error_handler_spec, request[w].blueprint, e.cls)
            called == Len(evs) > u /\ evs[u + 1].e = "handler"
                        /\ evs[u + 1].a = found /\ evs[u + 1].x = e
            returned == ~(Len(evs) > u + 1 /\ evs[u + 2].e = "raised")
        IN IF ~IsInstance(e.cls, "HTTPException")
           THEN IF found # NoHandler
                THEN /\ called /\ HandlerCallsOf(evs, u) = {u + 1}
                     /\ returned => ValueReturnedAt(w, u) = evs[u + 1].v
                ELSE /\ Len(evs) > u /\ evs[u + 1] = Ev("reraise", "", e, NoneVal)
                     /\ HandlerCallsOf(evs, u) = {}
                     /\ IF Len(evs) > u + 1
                        THEN evs[u + 2] = Ev("got_request_exception", "", e, NoneVal)
                        ELSE pc[w] = "except" /\ exc[w] = e
           ELSE ~TrapHttpException(config, e.cls) =>
                /\ ~(Len(evs) > u /\ evs[u + 1].e = "reraise")
                /\ IF ClassCode(e.cls) = None \/ found = NoHandler
                   THEN /\ HandlerCallsOf(evs, u) = {}
                        /\ ValueReturnedAt(w, u) = ExcVal(e.cls)
                   ELSE called /\ HandlerCallsOf(evs, u) = {u + 1}

\* A KeyError of the view, which nothing is registered for, was re-raised
\* and handle_exception made the 500 response of it.
C33_Witness ==
    \E w \in Workers : \E u \in Positions(events[w], "handle_user_exception") :
        /\ pc[w] = "done"
        /\ events[w][u].x = Exc("KeyError", "view")
        /\ events[w][u + 1] = Ev("reraise", "", events[w][u].x, NoneVal)
        /\ events[w][u + 2] = Ev("got_request_exception", "", events[w][u].x, NoneVal)
        /\ \E r \in Positions(events[w], "respond") : events[w][r].v.status = "500"

\* An AppError of a before-request function was handled by the handler
\* registered for the class, and its result was made the response.
C33_HandledFromPreprocessing ==
    \E w \in Workers : \E u \in Positions(events[w], "handle_user_exception") :
        /\ pc[w] = "done"
        /\ events[w][u].x = Exc("AppError", "b1")
        /\ events[w][u + 1] = Ev("handler", "hApp", events[w][u].x, StrVal("handled"))
        /\ \E r \in Positions(events[w], "respond") : events[w][r].v.body = "handled"

\* ------------------------------------------- what the teardown is told
\* The exception that left full_dispatch_request in a trace: the one
\* handle_exception was called with, or the one that is no Exception and
\* passed it by; NoExc when none did.
Escaped(evs) ==
    LET handled == Positions(evs, "got_request_exception")
        passed == {i \in Positions(evs, "raised") :
                      ~IsInstance(evs[i].x.cls, "Exception")
                      /\ evs[i].a \notin TeardownFuncs}
    IN IF handled # {} THEN evs[CHOOSE g \in handled : TRUE].x
       ELSE IF passed # {} THEN evs[CHOOSE i \in passed : TRUE].x
       ELSE NoExc

\* C34: every teardown function called for a request is given the exception
\* that left full_dispatch_request, also when handle_exception made a
\* response of it, unless should_ignore_error is true for it; it is given
\* None when no exception left full_dispatch_request, the request having
\* succeeded or an error handler having made the response, and when
\* should_ignore_error is true for the one that did.
C34_TeardownExceptionValue ==
    \A w \in Workers :
        LET evs == events[w]
            escaped == Escaped(evs)
            told == IF escaped.cls \in app.ignored_errors THEN NoExc ELSE escaped
        IN \A i \in Positions(evs, "call") :
              evs[i].a \in TeardownFuncs => evs[i].x = told

\* A TypeError of make_response left full_dispatch_request, the 500 handler
\* made the response of it, and the teardown functions of the request and
\* of the application context were given the TypeError.
C34_Witness ==
    \E w \in Workers :
        /\ pc[w] = "done"
        /\ Escaped(events[w]) = Exc("TypeError", "make_response")
        /\ \E r \in Positions(events[w], "respond") : events[w][r].v.body = "handled"
        /\ \E i \in CallPositions(events[w], "t1") :
              events[w][i].x = Exc("TypeError", "make_response")
        /\ \E i \in CallPositions(events[w], "ta1") :
              events[w][i].x = Exc("TypeError", "make_response")

\* The teardown functions were given None after a handler made the response
\* of the view's AppError, and after a KeyError, which should_ignore_error
\* is true for, left full_dispatch_request.
C34_ToldNone ==
    \E w \in Workers :
        /\ pc[w] = "done"
        /\ \/ /\ Escaped(events[w]) = NoExc
              /\ \E h \in Positions(events[w], "handler") :
                    events[w][h].x = Exc("AppError", "view")
           \/ Escaped(events[w]) = Exc("KeyError", "view")
        /\ \E i \in CallPositions(events[w], "t1") : events[w][i].x = NoExc

\* ------------------------------------------------ one view per endpoint
\* The endpoint a call of add_url_rule or route names.
EndpointOf(c) == IF c.endpoint = None THEN c.view_func ELSE c.endpoint

\* The last setup call got as far as the view registry: the barrier of
\* setupmethod let it pass, its methods are no string and it has a view.
ReachedViewRegistry(u) ==
    /\ ~(u.debug /\ u.got)
    /\ u.call.methods.kind # "str"
    /\ u.call.view_func # None

\* C35: whatever calls of add_url_rule and route are made, an endpoint the
\* view registry has keeps the view it has, which therefore is the first one
\* registered for it, and an endpoint it gains has the view of the call
\* that was made; a call that names another view for an endpoint the
\* registry has raises AssertionError, and one that names the same view
\* raises nothing.
C35_FirstViewKept ==
    [][ (usage' # usage \/ app' # app) =>
          LET u == usage'[1]
              ep == EndpointOf(u.call)
              had == DOMAIN app.view_functions
              has == DOMAIN app'.view_functions
          IN /\ \A e \in had :
                   e \in has /\ app'.view_functions[e] = app.view_functions[e]
             /\ \A e \in has \ had :
                   e = ep /\ app'.view_functions[e] = u.call.view_func /\ u.x = NoExc
             /\ ReachedViewRegistry(u) /\ ep \in had =>
                   IF app.view_functions[ep] # u.call.view_func
                   THEN u.x = Exc("AssertionError", "add_url_rule")
                   ELSE u.x = NoExc
      ]_vars

\* The endpoint "new_view" has the view registered for it first, and the
\* call that named other_view for it was refused.
C35_Witness ==
    /\ usage # <<>>
    /\ usage[1].call.endpoint = "new_view" /\ usage[1].call.view_func = "other_view"
    /\ usage[1].x = Exc("AssertionError", "add_url_rule")
    /\ app.view_functions["new_view"] = "new_view"

\* The other way round: other_view was registered for the endpoint first
\* and new_view was refused; and the view of "index" was registered again.
C35_OtherOrder ==
    /\ usage # <<>>
    /\ "new_view" \in DOMAIN app.view_functions
    /\ app.view_functions["new_view"] = "other_view"
    /\ \/ /\ usage[1].call.endpoint = None /\ usage[1].call.view_func = "new_view"
          /\ usage[1].x = Exc("AssertionError", "add_url_rule")
       \/ /\ usage[1].call.endpoint = "index" /\ usage[1].call.view_func = "index_view"
          /\ usage[1].x = NoExc

\* ------------------------------------------- a refused registration
\* C36: a call of add_url_rule that is refused because its endpoint has
\* another view leaves the application as it was: the view registry and the
\* URL map after the call are what they were before it.
C36_RejectedCallChangesNothing ==
    [][ (usage' # usage \/ app' # app) =>
          (usage'[1].x = Exc("AssertionError", "add_url_rule") =>
              /\ app'.view_functions = app.view_functions
              /\ app'.url_map = app.url_map)
      ]_vars

\* What the refused call does leave behind: its rule is the last one of the
\* URL map, under the endpoint whose view it did not replace.
C36_RuleOfRefusedCallAdded ==
    /\ usage # <<>>
    /\ usage[1].x = Exc("AssertionError", "add_url_rule")
    /\ app.url_map # <<>>
    /\ app.url_map[Len(app.url_map)].rule = usage[1].call.rule
    /\ app.url_map[Len(app.url_map)].endpoint = EndpointOf(usage[1].call)
    /\ app.view_functions[EndpointOf(usage[1].call)] # usage[1].call.view_func

\* ------------------------------- a before-first-request function raises
\* The first k functions of funcs were called, once each and in order.
FirstCalled(calls, funcs, k) ==
    /\ Len(calls) = k
    /\ \A j \in 1..k : calls[j].a = funcs[j]

C37_NeverFirst ==
    /\ bfr_calls = <<2, 0>>
    /\ ~got_first_request
    /\ before_request_lock = NoWorker

\* ------------------------------------ leaving the first-request check
\* The worker is inside try_trigger_before_first_request_functions, past
\* the first read of the flag.
InFirstRequestCheck(w) ==
    pc[w] \in {"lock_wait", "lock_blocked", "locked", "bfr", "bfr_set"}

\* C38: the lock is held only by a worker inside the first-request check,
\* so that it is released on every way out, and every worker inside the
\* check, waiting for the lock or running the functions, is outside it at
\* some later time.
C38_CheckIsLeft ==
    \A w \in Workers :
        /\ [](before_request_lock = w => InFirstRequestCheck(w))
        /\ InFirstRequestCheck(w) ~> ~InFirstRequestCheck(w)

\* A worker that blocked on the lock while the other one ran the functions
\* has got past the check, and the lock is free.
C38_Witness ==
    \E w \in Workers :
        /\ Positions(events[w], "blocked") # {}
        /\ pc[w] \in PastFirstCheck
        /\ before_request_lock = NoWorker

\* A worker that blocked on the lock has left the check with the exception
\* of a function it then called itself.
C38_LeftByRaising ==
    \E w \in Workers :
        /\ Positions(events[w], "blocked") # {}
        /\ \E i \in 1..Len(events[w]) :
              events[w][i].e = "raised" /\ events[w][i].a \in {"f1", "f2"}
        /\ ~InFirstRequestCheck(w)
        /\ before_request_lock # w

\* ------------------------- preprocessing a request whose routing failed
\* The places of a trace at which the routing failure was raised.
RoutingRaised(evs) ==
    {i \in 1..Len(evs) : evs[i].e = "raised" /\ evs[i].a = "routing"}

\* C39: a request whose routing failed is preprocessed like any other: once
\* full_dispatch_request has begun, its URL value preprocessors have been
\* called, and where the routing failure is raised every URL value
\* preprocessor and before-request function of the request has been called
\* before, each returning None.  When a before-request function returns a
\* value for such a request the routing failure is not raised and no view is
\* called, finalize_request is given the value, and unless something raises
\* before the response is returned the response has the value as its body.
C39_PreprocessedBeforeRouting ==
    \A w \in Workers :
        (request[w] # NoRequest /\ request[w].routing # None) =>
            LET evs == events[w]
                bp == request[w].blueprint
                pre == Chained(app.url_value_preprocessors, bp)
                       \o Chained(app.before_request_funcs, bp)
            IN /\ StagePositions(evs, "Preprocessed") # {} =>
                     CallPositions(evs, pre[1]) # {}
               /\ \A d \in RoutingRaised(evs) :
                     /\ \A p \in StagePositions(evs, "Preprocessed") : p < d
                     /\ FirstCalled(CallsOf(SubSeq(evs, 1, d - 1), SeqRange(pre)),
                                    pre, Len(pre))
                     /\ EarlyReturns(evs) = {}
               /\ \A i \in EarlyReturns(evs) :
                     /\ RoutingRaised(evs) = {}
                     /\ Positions(evs, "view") = {}
                     /\ \A j \in Positions(evs, "finalize_request") :
                           (\A k \in Positions(evs, "finalize_request") : j <= k) =>
                               evs[j].v = evs[i].v
                     /\ \A r \in Positions(evs, "respond") :
                           (\A j \in RaisePositions(evs) : r < j) =>
                               evs[r].v.body = evs[i].v.body

\* A POST whose routing asked for a redirect was answered with what the
\* before-request function returned.
C39_Witness ==
    /\ pc[MainWorker] = "done"
    /\ request[MainWorker].routing = "RequestRedirect"
    /\ request[MainWorker].method = "POST"
    /\ EarlyReturns(events[MainWorker]) # {}
    /\ RaisePositions(events[MainWorker]) = {}
    /\ \E r \in Positions(events[MainWorker], "respond") :
          events[MainWorker][r].v.body = "early"

\* The other case: no function returned a value and the routing failure
\* was raised after the preprocessing.
C39_RoutingRaisedAfterwards ==
    /\ pc[MainWorker] = "done"
    /\ request[MainWorker].routing = "NotFound"
    /\ RoutingRaised(events[MainWorker]) # {}
    /\ CallPositions(events[MainWorker], "b1") # {}

\* --------------------------------- a failure of the normal finalization
\* C40: when make_response or an after-request function raises while
\* finalize_request runs for the result of the dispatch, the exception is
\* not given to handle_user_exception, which is not called after that
\* finalization began: the exception goes to handle_exception, which
\* re-raises it under the propagation policy and otherwise logs it and
\* answers with the 500 handler's result or, without a 500 handler, with
\* the default InternalServerError response; in that last case
\* finalize_request is not called again, no after-request function is
\* called after the failure, and the session is not saved for the request.
C40_FinalizingFailureToHandleException ==
    \A w \in Workers :
        \A f \in {p \in Positions(events[w], "finalize_request") :
                     events[w][p].a = "False"} :
            \A i \in FinalizingFailures(events[w], f) :
                LET evs == events[w]
                    e == evs[i].x
                    handler == FindErrorHandler(error_handler_spec, request[w].blueprint,
                                                "InternalServerError")
                IN /\ \A h \in Positions(evs, "handle_user_exception") : h < f
                   /\ PropagatedToCaller(w, i)
                   /\ Len(evs) > i + 1 =>
                        IF PropagateExceptions(config)
                        THEN evs[i + 2] = Ev("reraise", "", e, NoneVal)
                             /\ Positions(evs, "respond") = {}
                        ELSE /\ evs[i + 2] = LogException(e)
                             /\ handler # NoHandler =>
                                   /\ Len(evs) > i + 2
                                   /\ evs[i + 3].e = "handler" /\ evs[i + 3].a = handler
                             /\ handler = NoHandler =>
                                   /\ \A r \in Positions(evs, "respond") :
                                         evs[r].v = ExcVal("InternalServerError")
                                   /\ \A j \in (i + 1)..Len(evs) :
                                         /\ evs[j].e # "finalize_request"
                                         /\ ~(evs[j].e = "call"
                                              /\ evs[j].a \in AllFuncs(app.after_request_funcs))
                                   /\ Positions(evs, "save_session") = {}
                                   /\ Positions(evs, "request_finished") = {}

\* In production mode and without a 500 handler the first after-request
\* function to be called raised while the result of the view was finalized,
\* and the request was answered with the default 500 response.
C40_Witness ==
    /\ pc[MainWorker] = "done"
    /\ config = DefaultConfig
    /\ error_handler_spec = EmptyRegistry
    /\ Positions(events[MainWorker], "view") # {}
    /\ \E i \in Positions(events[MainWorker], "raised") :
          /\ events[MainWorker][i].a \in AllFuncs(app.after_request_funcs)
          /\ events[MainWorker][i + 1].e = "got_request_exception"
    /\ \E r \in Positions(events[MainWorker], "respond") :
          events[MainWorker][r].v = ExcVal("InternalServerError")

\* The same for a view that returned None, which make_response refuses, and
\* for an after-request failure that is re-raised in debug mode.
C40_MakeResponseFailed ==
    /\ pc[MainWorker] = "done"
    /\ ~PropagateExceptions(config)
    /\ error_handler_spec = EmptyRegistry
    /\ \E i \in Positions(events[MainWorker], "raised") :
          events[MainWorker][i].a = "make_response"
    /\ \E r \in Positions(events[MainWorker], "respond") :
          events[MainWorker][r].v = ExcVal("InternalServerError")

C40_Reraised ==
    /\ pc[MainWorker] = "done"
    /\ config.DEBUG
    /\ \E i \in Positions(events[MainWorker], "raised") :
          /\ events[MainWorker][i].a \in AllFuncs(app.after_request_funcs)
          /\ events[MainWorker][i + 2].e = "reraise"

====
